---- MODULE Spec2Model ----
(***************************************************************************)
(* Code Critics: webhook intake, admission and the review pipeline.        *)
(*                                                                         *)
(* Two entry points are modelled, as in the repository: the Express route  *)
(* POST /api/webhooks (src/index.ts), which launches                       *)
(* CodeReviewService.conductReview as a detached promise, and the          *)
(* serverless handler (api/webhooks), which awaits the webhook handlers of *)
(* services/webhook-handlers.  Every awaited outbound call is one step of  *)
(* the job that makes it; steps of different jobs interleave freely, as    *)
(* promises do on the Node event loop.                                     *)
(*                                                                         *)
(* Time is counted in ticks; one hour is WindowMs (rate limiter) or HourMs *)
(* (dedup oracle) ticks.  Strings are modelled by what the code asks of    *)
(* them: a signature header is a sequence of tokens, an error message is   *)
(* the set of keywords it contains, a comment body is its markers.         *)
(***************************************************************************)
EXTENDS Integers, Sequences, FiniteSets, TLC

\* ------------------------------------------------------------------------
\* Bounds of the model
\* ------------------------------------------------------------------------
MaxTime == 3
MaxNow == 1
MaxCalls == 5
WindowMs == 2
MaxRequests == 2
MaxCacheSize == 2
HourMs == 1
MaxDiffSize == 2
DeadlineMs == 1
MaxParts == 3
MaxPartSize == 3
MaxBlocks == 2
MaxChars == 5
MaxChunkSize == 3
MaxLines == 4
MaxPushes == 4

VARIABLES
  now,        \* Date.now(), in ticks
  cache,      \* RateLimitCache.cache: identifier -> entry, or NoEntry
  admitted,   \* history: the isAllowed calls that returned true
  calls,      \* history: number of isAllowed calls made
  req,        \* delivery -> the request received, or NoRequest
  resp,       \* delivery -> HTTP status sent, or NoResponse
  job,        \* delivery -> the review job or handler run it started
  prior,      \* comments already on the pull request at start
  allowList,  \* config.ALLOWED_REPOSITORIES
  input,      \* the argument of the function under study, or NoInput
  output      \* what the function returned, or NoOutput

vars == <<now, cache, admitted, calls, req, resp, job, prior, allowList, input, output>>
pureVars == <<input, output>>
pipeVars == <<req, resp, job, prior, allowList, pureVars>>

\* ------------------------------------------------------------------------
\* Generic helpers
\* ------------------------------------------------------------------------
NoInput == <<"none">>
NoOutput == [outcome |-> "none"]

StartsWith(s, p) == Len(s) >= Len(p) /\ SubSeq(s, 1, Len(p)) = p

\* ------------------------------------------------------------------------
\* utils/webhook-security.ts: verifyWebhookSignature
\* ------------------------------------------------------------------------
WEBHOOK_SECRET == 1
HexBase == 4
NoSecret == 0
Sha256Prefix == <<"sha256=">>

\* crypto.createHmac('sha256', secret).update(payload).digest('hex'): a
\* fixed-length hex string determined by payload and secret.
HexDigits == <<"0", "1", "2", "3">>

HmacSha256Hex(payload, secret) ==
  << HexDigits[((payload + secret) % HexBase) + 1],
     HexDigits[(((payload \div HexBase) + 2 * secret) % HexBase) + 1] >>

\* crypto.timingSafeEqual on two buffers of equal length
TimingSafeEqual(a, b) == a = b

verifyWebhookSignatureLengthOnly(payload, signature, secret) ==
  IF signature = <<>> THEN FALSE
  ELSE IF ~StartsWith(signature, Sha256Prefix) THEN FALSE
  ELSE IF secret = NoSecret THEN FALSE
  ELSE Len(signature) = Len(Sha256Prefix \o HmacSha256Hex(payload, secret))

verifyWebhookSignature(payload, signature, secret) ==
  IF signature = <<>> THEN FALSE
  ELSE IF ~StartsWith(signature, Sha256Prefix) THEN FALSE
  ELSE IF secret = NoSecret THEN FALSE
  ELSE LET expectedHeader == Sha256Prefix \o HmacSha256Hex(payload, secret)
       IN  IF Len(signature) # Len(expectedHeader) THEN FALSE
           ELSE TimingSafeEqual(signature, expectedHeader)

\* ------------------------------------------------------------------------
\* utils/webhook-security.ts: RateLimitCache
\* ------------------------------------------------------------------------
\* services/webhook-handlers: the identifiers passed to isAllowed, fullName
\* by handlePullRequestEvent and `${fullName}-manual` by
\* handleIssueCommentEvent
Repositories == {"alice/repo", "alice/repo-manual"}
Triggers == {"auto", "manual"}

autoKey(fullName) == fullName

manualKey(fullName) == fullName \o "-manual"

Identifiers == {autoKey(r) : r \in Repositories} \cup {manualKey(r) : r \in Repositories}
NoEntry == [count |-> 0, resetTime |-> -1]

CacheSize(c) == Cardinality({k \in DOMAIN c : c[k] # NoEntry})

cleanupAll(c, t) == [k \in DOMAIN c |-> NoEntry]

\* cleanup(): delete every entry whose window has expired
cleanup(c, t) ==
  [k \in DOMAIN c |-> IF c[k] # NoEntry /\ t > c[k].resetTime THEN NoEntry ELSE c[k]]

\* isAllowed(identifier) at time t on cache c: the returned flag and the
\* cache afterwards.  The entry is read before the size-triggered cleanup
\* and is updated in place afterwards, as in the code.
isAllowedOverCount(entry) == entry.count > MaxRequests

isAllowedLimitReached(entry) == entry.count >= MaxRequests

isAllowed(c, identifier, t) ==
  LET entry == c[identifier]
      c1    == IF CacheSize(c) >= MaxCacheSize THEN cleanup(c, t) ELSE c
  IN  IF entry = NoEntry \/ t > entry.resetTime
        THEN [allowed |-> TRUE,
              cache   |-> [c1 EXCEPT ![identifier] = [count |-> 1, resetTime |-> t + WindowMs]]]
      ELSE IF isAllowedLimitReached(entry)
        THEN [allowed |-> FALSE, cache |-> c1]
      ELSE \* entry.count++ on the object read at the start; it is still
           \* in the map, because cleanup only deletes expired entries
           [allowed |-> TRUE,
            cache   |-> [c1 EXCEPT ![identifier] = [count |-> entry.count + 1,
                                                    resetTime |-> entry.resetTime]]]

getRemainingRequests(c, identifier, t) ==
  LET entry == c[identifier]
  IN  IF entry = NoEntry \/ t > entry.resetTime THEN MaxRequests
      ELSE IF MaxRequests - entry.count > 0 THEN MaxRequests - entry.count ELSE 0

getResetTime(c, identifier, t) ==
  IF c[identifier] = NoEntry THEN t ELSE c[identifier].resetTime

\* ------------------------------------------------------------------------
\* Requests: headers and parsed JSON body
\* ------------------------------------------------------------------------
Deliveries == {1, 2}
NoRequest == [entry |-> "none"]
NoResponse == 0
FullName == "alice/repo"
NoAllowList == {}

\* The webhook payloads delivered in the model.  payload identifies
\* JSON.stringify(req.body); the other fields are what the code reads.
\*   issue:   "none" | "issue" | "pr" (issue.pull_request present)
\*   comment: "none" | "plain" | "lower" (@codecritics) | "mixed" (@CodeCritics)
\*   full_name: repository.full_name is a string; number, diff_url:
\*   pull_request.number is a number, pull_request.diff_url is a string
Event(payload, name, action, repository, pull_request, issue, comment) ==
  [payload |-> payload, name |-> name, action |-> action, repository |-> repository,
   pull_request |-> pull_request, issue |-> issue, comment |-> comment,
   full_name |-> repository, number |-> pull_request, diff_url |-> pull_request]

PullRequestOpened == Event(1, "pull_request", "opened", TRUE, TRUE, "none", "none")
PullRequestClosed == Event(2, "pull_request", "closed", TRUE, TRUE, "none", "none")
MentionComment    == Event(3, "issue_comment", "created", TRUE, FALSE, "pr", "lower")
PlainComment      == Event(5, "issue_comment", "created", TRUE, FALSE, "pr", "plain")
Ping              == Event(6, "ping", "none", TRUE, FALSE, "none", "none")
Push              == Event(7, "push", "none", TRUE, FALSE, "none", "none")

Events == {PullRequestOpened, PullRequestClosed, MentionComment, PlainComment, Ping, Push}

ValidSignature(payload) == Sha256Prefix \o HmacSha256Hex(payload, WEBHOOK_SECRET)

\* A digest that differs from d in its last hex digit only
FlipLast(d) == [d EXCEPT ![Len(d)] = IF d[Len(d)] = "0" THEN "1" ELSE "0"]

\* Signature headers a sender can put on a payload: none, the bare digest,
\* a truncated header, an over-long header, a one-digit-mutated header.
BadSignatures(payload) ==
  LET h == HmacSha256Hex(payload, WEBHOOK_SECRET)
  IN  { <<>>, h, Sha256Prefix \o SubSeq(h, 1, Len(h) - 1), Sha256Prefix \o h \o <<"0">>,
        Sha256Prefix \o FlipLast(h) }

Entries == {"express", "serverless"}

\* A request: the entry point it is sent to, its signature header, the bytes
\* of its body as sent (raw) and the body parsed from them
Request(entry, signature, raw, body) ==
  [entry |-> entry, signature |-> signature, raw |-> raw, body |-> body]

\* Requests received: every event correctly signed, and the event that
\* would start a review with each of the bad signatures.  The body is sent
\* as JSON.stringify would write it.
Requests ==
  { Request(e, ValidSignature(ev.payload), ev.payload, ev) : e \in Entries, ev \in Events }
  \cup
  UNION { { Request(e, sg, ev.payload, ev) : sg \in BadSignatures(ev.payload) }
            : e \in Entries, ev \in {PullRequestOpened} }

\* ------------------------------------------------------------------------
\* utils/webhook-security.ts: payload checks
\* ------------------------------------------------------------------------
\* validateWebhookPayload(payload).isValid
validateWebhookPayload(body) ==
  /\ body.action # "none"
  /\ body.repository /\ body.full_name
  /\ body.action \in {"opened", "synchronize", "reopened"}
       => body.pull_request /\ body.number /\ body.diff_url
  /\ (body.action = "created" /\ body.issue # "none") => body.comment # "none"

\* shouldProcessEvent(payload).shouldProcess
shouldProcessEvent(body) ==
  IF body.pull_request
    THEN body.action \in {"opened", "synchronize", "reopened"}
  ELSE IF body.issue # "none" /\ body.comment # "none" /\ body.action = "created"
    THEN body.issue = "pr" /\ body.comment = "lower"
  ELSE FALSE

\* services/github.ts: isRepositoryAllowed
isRepositoryAllowed(fullName) ==
  IF allowList = NoAllowList THEN TRUE ELSE fullName \in allowList

\* ------------------------------------------------------------------------
\* Comment bodies and the dedup oracle
\* ------------------------------------------------------------------------
NoTimestamp == -1

\* A body is the text the code builds: its kind, the phrase it carries, the
\* HTML markers it contains, the value of its timestamp marker, and whether
\* its text contains @codecritics.
Body(kind, phrase, markers, ts) ==
  [kind |-> kind, phrase |-> phrase, markers |-> markers, ts |-> ts, mention |-> FALSE]

NoSupportedFilesNotice(t) == Body("skip", "no supported files", {"code-critics-review"}, t)
StillTooLargeNotice(t)    == Body("skip", "still too large", {"code-critics-review"}, t)
NoIssuesComment           == Body("no-issues", "No significant issues found. Good job!", {}, NoTimestamp)
ReviewFailedComment(p)    == Body("error", p, {"code-critics-error"}, NoTimestamp)
PlaceholderReview(t)      == Body("review", "placeholder", {"code-critics-review"}, t)
RateLimitWarning(t)       == Body("rate-limit", "rate limit", {"code-critics-rate-limit"}, t)
\* postErrorComment: "... trigger a manual review by commenting `@codecritics`."
HandlerErrorComment(p, t) ==
  [Body("error", p, {"code-critics-error"}, t) EXCEPT !.mention = TRUE]

ServiceLogin == "service-account"
Comment(user, body) == [user |-> user, body |-> body]

\* services/github.ts: findExistingBotComments, on a successful listing
findExistingBotComments(listed) ==
  { c \in listed : \/ c.user = "code-critics[bot]"
                   \/ "code-critics-comment" \in c.body.markers
                   \/ "code-critics-review" \in c.body.markers }

\* the predicate of existingComments.find in shouldSkipReview
isRecentReview(c, t) ==
  /\ "code-critics-review" \in c.body.markers
  /\ c.body.ts # NoTimestamp
  /\ t - c.body.ts < HourMs

shouldSkipReviewNoManualBranch(existing, isManualTrigger, t) ==
  IF existing = {} THEN FALSE
  ELSE \E c \in existing : isRecentReview(c, t)

\* services/webhook-handlers: shouldSkipReview, given the listing result
shouldSkipReview(existing, isManualTrigger, t) ==
  IF existing = {} THEN FALSE
  ELSE IF isManualTrigger THEN FALSE
  ELSE \E c \in existing : isRecentReview(c, t)

\* ------------------------------------------------------------------------
\* Errors: a message is the set of keywords it contains
\* ------------------------------------------------------------------------
NoError == {"<none>"}
\* The errors the outbound calls throw in the model, by call
ErrorMessages(op) ==
  IF op = "setCommitStatus" THEN { {"not found"} }
  ELSE IF op = "getPullRequestData" THEN { {"rate limit", "timeout"} }
  ELSE IF op = "generateCompletion" THEN { {"timeout"} }
  ELSE IF op = "createReview" THEN { {} }
  ELSE { {"network"} }

\* services/code-reviewer: sanitizeErrorForPublic
sanitizeErrorForPublic(msg) ==
  IF "api key" \in msg \/ "auth" \in msg THEN "Authentication configuration issue detected."
  ELSE IF "network" \in msg \/ "fetch" \in msg THEN "Network connectivity issue encountered."
  ELSE IF "timeout" \in msg THEN "Request timeout - the review took too long to complete."
  ELSE IF "rate limit" \in msg THEN "Rate limit exceeded - please try again later."
  ELSE "An unexpected error occurred during the review process."

\* services/webhook-handlers: the message chosen by postErrorComment
\* (NODE_ENV other than development)
postErrorCommentMessage(msg) ==
  IF "rate limit" \in msg THEN "GitHub API rate limit exceeded. Please try again later."
  ELSE IF "token" \in msg THEN "Authentication error. Please check the GitHub token configuration."
  ELSE IF "not found" \in msg THEN "Repository or pull request not found."
  ELSE "An unexpected error occurred while processing the review."

\* api/webhooks: status of the error response
errorResponseStatus(msg) ==
  IF "signature" \in msg THEN 401
  ELSE IF "rate limit" \in msg THEN 429
  ELSE IF "not found" \in msg THEN 404
  ELSE 500

\* ------------------------------------------------------------------------
\* Diffs, the size policy and the parser, as conductReview uses them
\* ------------------------------------------------------------------------
\* A diff is its sequence of "diff --git" parts: whether the file name ends
\* in an allowed extension, and the part's length.
Part(allowed, size) == [allowed |-> allowed, size |-> size]

RECURSIVE DiffLength(_)
DiffLength(diff) == IF diff = <<>> THEN 0 ELSE Head(diff).size + DiffLength(Tail(diff))

\* utils/diff-processor.ts: filterDiffByExtensions
RECURSIVE filterDiffByExtensions(_)
filterDiffByExtensions(diff) ==
  IF diff = <<>> THEN <<>>
  ELSE IF Head(diff).allowed THEN <<Head(diff)>> \o filterDiffByExtensions(Tail(diff))
  ELSE filterDiffByExtensions(Tail(diff))

Diffs ==
  { << Part(TRUE, 1) >>,
    << Part(FALSE, MaxDiffSize + 1) >>,
    << Part(TRUE, 2 * MaxDiffSize) >> }

handleLargeDiffNoMultiplier(diff) ==
  IF DiffLength(diff) > MaxDiffSize
    THEN LET finalDiff == filterDiffByExtensions(diff)
         IN  IF DiffLength(finalDiff) = 0 THEN "no supported files"
             ELSE IF DiffLength(finalDiff) > MaxDiffSize THEN "still too large"
             ELSE "proceed"
  ELSE "proceed"

\* _handleLargeDiff: "proceed", or the skip notice it posts
\* (LARGE_DIFF_MULTIPLIER is 1.5: x > MAX * 1.5 iff 2x > 3 * MAX)
handleLargeDiff(diff) ==
  IF DiffLength(diff) > MaxDiffSize
    THEN LET finalDiff == filterDiffByExtensions(diff)
         IN  IF DiffLength(finalDiff) = 0 THEN "no supported files"
             ELSE IF 2 * DiffLength(finalDiff) > 3 * MaxDiffSize THEN "still too large"
             ELSE "proceed"
  ELSE "proceed"

\* A reply is whether it contains the no-issues sentence, and its blocks: the
\* text from one **Location**: line to the next.  A block is the path and the
\* line part of its location (absent, or the value parseInt gives it, NaN or
\* a number), its description, and whether a --- line ends it.
NoLinePart == [kind |-> "absent", value |-> 0]
NaNLine    == [kind |-> "NaN", value |-> 0]
Number(n)  == [kind |-> "number", value |-> n]

BlockOf(path, line, description, terminated) ==
  [path |-> path, line |-> line, description |-> description, terminated |-> terminated]

Block(path, line, description) == BlockOf(path, Number(line), description, TRUE)
NoIssuesReply == [sentinel |-> TRUE, blocks |-> <<>>]
Findings(blocks) == [sentinel |-> FALSE, blocks |-> blocks]

Replies ==
  { NoIssuesReply,
    Findings(<< Block("a.ts", 3, "bug") >>),
    Findings(<< Block("a.ts", 3, "bug"), Block("b.ts", 1, "leak") >>),
    Findings(<< Block("", 1, "no location") >>) }

\* currentComment.line after the **Location**: line: 1 for a location
\* without a line part and for a NaN
currentCommentLine(b) == IF b.line.kind = "number" THEN b.line.value ELSE 1

\* createCommentFromParsedData: data.path || 'unknown', data.line || 1
createCommentFromParsedData(b) ==
  [path |-> IF b.path = "" THEN "unknown" ELSE b.path,
   line |-> IF currentCommentLine(b) = 0 THEN 1 ELSE currentCommentLine(b),
   body |-> Body("finding", b.description, {"code-critics-comment"}, NoTimestamp)]

\* whether the block is pushed: at its --- line or at the end of the reply
\* when it has a path and a description; at the next **Location**: line
\* when it also has a line that is not 0
isPushed(b, last) ==
  IF b.terminated \/ last THEN b.path # "" /\ b.description # ""
  ELSE b.path # "" /\ currentCommentLine(b) # 0 /\ b.description # ""

\* parseAIResponse on such a reply
RECURSIVE parseBlocks(_)
parseBlocks(blocks) ==
  IF blocks = <<>> THEN <<>>
  ELSE IF isPushed(Head(blocks), Len(blocks) = 1)
    THEN <<createCommentFromParsedData(Head(blocks))>> \o parseBlocks(Tail(blocks))
  ELSE parseBlocks(Tail(blocks))

parseAIResponse(reply) == IF reply.sentinel THEN <<>> ELSE parseBlocks(reply.blocks)

\* services/github.ts: the state setCommitStatus passes to createCommitStatus
commitState(status) ==
  IF status = "pending" THEN "pending" ELSE IF status = "success" THEN "success" ELSE "failure"

\* ------------------------------------------------------------------------
\* Jobs: a run of conductReview (Express) or of a webhook handler
\* (serverless).  calls is the job's own sequence of outbound calls.
\* ------------------------------------------------------------------------
NoJob ==
  [kind |-> "none", pc |-> "none", trigger |-> "none", calls |-> <<>>, err |-> NoError,
   diff |-> <<>>, parsed |-> FALSE, comments |-> <<>>, skip |-> "unasked",
   recentAtStart |-> FALSE, started |-> 0]

\* a job created now
NewJob(kind, trigger, pc, recent) ==
  [NoJob EXCEPT !.kind = kind, !.trigger = trigger, !.pc = pc, !.recentAtStart = recent,
                !.started = now]

CallsOf(d, op) == { i \in DOMAIN job[d].calls : job[d].calls[i].op = op }

PostedBy(d) ==
  { job[d].calls[i].arg : i \in { k \in CallsOf(d, "postPRComment") : job[d].calls[k].ok } }

\* The issue comments on the pull request: those it started with and those
\* posted so far
HostComments ==
  prior \cup { Comment(ServiceLogin, b) : b \in UNION { PostedBy(d) : d \in Deliveries } }

\* A recent bot summary is on the pull request at time t
RecentSummaryExists(t) == \E c \in HostComments : isRecentReview(c, t)

Logged(d, op, arg, ok) == Append(job[d].calls, [op |-> op, arg |-> arg, ok |-> ok])

\* setCommitStatus(owner, repo, pullNumber, status, description) and the
\* state it asks the host to create
StatusArg(status, description) ==
  [status |-> status, state |-> commitState(status), description |-> description]

\* An awaited call of conductReview succeeds and the job moves on
Proceed(d, op, arg, pc) ==
  job' = [job EXCEPT ![d].calls = Logged(d, op, arg, TRUE), ![d].pc = pc]

\* An awaited call inside the try block throws: control enters the catch
Throw(d, op, arg) ==
  \E msg \in ErrorMessages(op) :
    job' = [job EXCEPT ![d].calls = Logged(d, op, arg, FALSE), ![d].err = msg,
                       ![d].pc = "catch"]

\* A call inside the catch block throws: conductReview rejects with that error
Reject(d, op, arg) ==
  \E msg \in ErrorMessages(op) :
    job' = [job EXCEPT ![d].calls = Logged(d, op, arg, FALSE), ![d].err = msg,
                       ![d].pc = "rejected"]

Arrives(d, r) ==
  /\ req[d] = NoRequest
  /\ \A e \in Deliveries : e < d => req[e] # NoRequest
  /\ req' = [req EXCEPT ![d] = r]

\* ------------------------------------------------------------------------
\* src/index.ts: POST /api/webhooks (Express).  The handler is synchronous:
\* it answers and, for a review, leaves conductReview running detached.
\* ------------------------------------------------------------------------
expressMentions(body) ==
  body.issue = "pr" /\ body.comment \in {"lower", "mixed"}

PostApiWebhooks(d, r) ==
  /\ r.entry = "express"
  /\ Arrives(d, r)
  /\ IF ~verifyWebhookSignature(r.body.payload, r.signature, WEBHOOK_SECRET)
       THEN /\ resp' = [resp EXCEPT ![d] = 401]
            /\ UNCHANGED job
     ELSE IF r.body.name = "ping"
       THEN /\ resp' = [resp EXCEPT ![d] = 200]
            /\ UNCHANGED job
     ELSE IF r.body.name = "pull_request"
               /\ r.body.action \in {"opened", "reopened", "synchronize"}
       THEN IF ~r.body.pull_request
              THEN \* pullRequest.base of undefined: the error handler answers
                   /\ resp' = [resp EXCEPT ![d] = 500]
                   /\ UNCHANGED job
            ELSE /\ job' = [job EXCEPT ![d] = NewJob("conductReview", "auto", "setPending",
                                                     RecentSummaryExists(now))]
                 /\ resp' = [resp EXCEPT ![d] = 202]
     ELSE IF r.body.name = "issue_comment" /\ expressMentions(r.body)
       THEN IF ~r.body.repository
              THEN \* req.body.repository.full_name of undefined
                   /\ resp' = [resp EXCEPT ![d] = 500]
                   /\ UNCHANGED job
            ELSE /\ job' = [job EXCEPT ![d] = NewJob("conductReview", "manual", "setPending",
                                                     RecentSummaryExists(now))]
                 /\ resp' = [resp EXCEPT ![d] = 202]
     ELSE /\ resp' = [resp EXCEPT ![d] = 202]
          /\ UNCHANGED job
  /\ UNCHANGED <<now, cache, admitted, calls, prior, allowList, pureVars>>

\* ------------------------------------------------------------------------
\* services/code-reviewer: CodeReviewService.conductReview, one action per
\* awaited call
\* ------------------------------------------------------------------------
Rest == <<now, cache, admitted, calls, req, resp, prior, allowList, pureVars>>

CR_SetPendingAsSuccess(d) ==
  /\ job[d].kind = "conductReview" /\ job[d].pc = "setPending"
  /\ Proceed(d, "setCommitStatus", StatusArg("success", "Code review in progress..."),
             "getPullRequestData")
  /\ UNCHANGED Rest

CR_SetPending(d) ==
  /\ job[d].kind = "conductReview" /\ job[d].pc = "setPending"
  /\ \/ Proceed(d, "setCommitStatus", StatusArg("pending", "Code review in progress..."), "getPullRequestData")
     \/ Throw(d, "setCommitStatus", StatusArg("pending", "Code review in progress..."))
  /\ UNCHANGED Rest

CR_GetPullRequestData(d) ==
  /\ job[d].kind = "conductReview" /\ job[d].pc = "getPullRequestData"
  /\ \/ \E diff \in Diffs :
          job' = [job EXCEPT ![d].calls = Logged(d, "getPullRequestData", diff, TRUE),
                             ![d].diff = diff,
                             ![d].pc = IF handleLargeDiff(diff) = "proceed"
                                         THEN "generateCompletion" ELSE "skipNotice"]
     \/ Throw(d, "getPullRequestData", <<>>)
  /\ UNCHANGED Rest

SkipNotice(d) ==
  IF handleLargeDiff(job[d].diff) = "no supported files"
    THEN NoSupportedFilesNotice(now) ELSE StillTooLargeNotice(now)

CR_SkipNoticeThenReview(d) ==
  /\ job[d].kind = "conductReview" /\ job[d].pc = "skipNotice"
  /\ Proceed(d, "postPRComment", SkipNotice(d), "generateCompletion")
  /\ UNCHANGED Rest

CR_SkipNotice(d) ==
  /\ job[d].kind = "conductReview" /\ job[d].pc = "skipNotice"
  /\ \/ Proceed(d, "postPRComment", SkipNotice(d), "skipStatus")
     \/ Throw(d, "postPRComment", SkipNotice(d))
  /\ UNCHANGED Rest

SkipDescription(d) ==
  IF handleLargeDiff(job[d].diff) = "no supported files"
    THEN "Review skipped: Diff too large and no supported files found."
    ELSE "Review skipped: Filtered diff still too large."

CR_SkipStatus(d) ==
  /\ job[d].kind = "conductReview" /\ job[d].pc = "skipStatus"
  /\ \/ Proceed(d, "setCommitStatus", StatusArg("success", SkipDescription(d)), "done")
     \/ Throw(d, "setCommitStatus", StatusArg("success", SkipDescription(d)))
  /\ UNCHANGED Rest

afterParseInverted(comments) == IF Len(comments) > 0 THEN "noIssues" ELSE "createReview"

\* the branch taken on comments.length > 0
afterParse(comments) == IF Len(comments) > 0 THEN "createReview" ELSE "noIssues"

\* the prompt carries combinedDiff, which is prData.diff
CR_GenerateCompletion(d) ==
  /\ job[d].kind = "conductReview" /\ job[d].pc = "generateCompletion"
  /\ \/ \E reply \in Replies :
          job' = [job EXCEPT ![d].calls = Logged(d, "generateCompletion", job[d].diff, TRUE),
                             ![d].parsed = TRUE,
                             ![d].comments = parseAIResponse(reply),
                             ![d].pc = afterParse(parseAIResponse(reply))]
     \/ Throw(d, "generateCompletion", job[d].diff)
  /\ UNCHANGED Rest

reviewCommentsDropLast(comments) == SubSeq(comments, 1, Len(comments) - 1)

\* comments.map(c => ({ path, line, body }))
reviewComments(comments) ==
  [i \in DOMAIN comments |-> [path |-> comments[i].path, line |-> comments[i].line,
                              body |-> comments[i].body]]

ReviewArg(d) ==
  [body |-> Body("summary", "Code Critic AI Review Summary:", {}, NoTimestamp),
   event |-> "COMMENT", comments |-> reviewComments(job[d].comments)]

CR_CreateReview(d) ==
  /\ job[d].kind = "conductReview" /\ job[d].pc = "createReview"
  /\ \/ Proceed(d, "createReview", ReviewArg(d), "statusFailure")
     \/ Throw(d, "createReview", ReviewArg(d))
  /\ UNCHANGED Rest

CR_StatusFailure(d) ==
  /\ job[d].kind = "conductReview" /\ job[d].pc = "statusFailure"
  /\ \/ Proceed(d, "setCommitStatus", StatusArg("failure", "Code review completed with suggestions."), "done")
     \/ Throw(d, "setCommitStatus", StatusArg("failure", "Code review completed with suggestions."))
  /\ UNCHANGED Rest

CR_NoIssues(d) ==
  /\ job[d].kind = "conductReview" /\ job[d].pc = "noIssues"
  /\ \/ Proceed(d, "postPRComment", NoIssuesComment, "statusSuccess")
     \/ Throw(d, "postPRComment", NoIssuesComment)
  /\ UNCHANGED Rest

CR_StatusSuccess(d) ==
  /\ job[d].kind = "conductReview" /\ job[d].pc = "statusSuccess"
  /\ \/ Proceed(d, "setCommitStatus", StatusArg("success", "Code review completed: No significant issues found."), "done")
     \/ Throw(d, "setCommitStatus", StatusArg("success", "Code review completed: No significant issues found."))
  /\ UNCHANGED Rest

CR_CatchComment(d) ==
  /\ job[d].kind = "conductReview" /\ job[d].pc = "catch"
  /\ LET body == ReviewFailedComment(sanitizeErrorForPublic(job[d].err))
     IN  \/ Proceed(d, "postPRComment", body, "catchStatus")
         \/ Reject(d, "postPRComment", body)
  /\ UNCHANGED Rest

\* after the status write the caught error is re-thrown
CR_CatchStatus(d) ==
  /\ job[d].kind = "conductReview" /\ job[d].pc = "catchStatus"
  /\ \/ Proceed(d, "setCommitStatus", StatusArg("error", "Code review failed - please check logs"), "rejected")
     \/ Reject(d, "setCommitStatus", StatusArg("error", "Code review failed - please check logs"))
  /\ UNCHANGED Rest

\* ------------------------------------------------------------------------
\* api/webhooks: the serverless handler, with the handlers of
\* services/webhook-handlers that webhooks.verifyAndReceive awaits
\* ------------------------------------------------------------------------
\* webhooks.on(...): the handler registered for the event
registeredHandler(body) ==
  IF body.name = "pull_request" /\ body.action \in {"opened", "synchronize", "reopened"}
    THEN "handlePullRequestEvent"
  ELSE IF body.name = "issue_comment" /\ body.action = "created"
    THEN "handleIssueCommentEvent"
  ELSE "none"

rateLimitKey(h) ==
  IF h = "handlePullRequestEvent" THEN autoKey(FullName) ELSE manualKey(FullName)

\* The request is verified and validated, and the registered handler runs up
\* to its first awaited call: event filter, allow-list, rate limit.
handler(d, r) ==
  /\ r.entry = "serverless"
  /\ Arrives(d, r)
  /\ LET h       == registeredHandler(r.body)
         trigger == IF h = "handlePullRequestEvent" THEN "auto" ELSE "manual"
         limit   == isAllowed(cache, rateLimitKey(h), now)
     IN  IF ~verifyWebhookSignature(r.body.payload, r.signature, WEBHOOK_SECRET)
           THEN /\ resp' = [resp EXCEPT ![d] = 401]
                /\ UNCHANGED <<job, cache>>
         ELSE IF ~validateWebhookPayload(r.body)
           THEN /\ resp' = [resp EXCEPT ![d] = 400]
                /\ UNCHANGED <<job, cache>>
         ELSE IF \/ h = "none"
                 \/ h = "handleIssueCommentEvent" /\ r.body.issue # "pr"
                 \/ ~shouldProcessEvent(r.body)
                 \/ ~isRepositoryAllowed(FullName)
           THEN /\ resp' = [resp EXCEPT ![d] = 200]
                /\ UNCHANGED <<job, cache>>
         ELSE /\ cache' = limit.cache
              /\ job' = [job EXCEPT ![d] =
                           NewJob("handler", trigger,
                                  IF limit.allowed THEN "findExistingBotComments"
                                                   ELSE "postRateLimitWarning",
                                  RecentSummaryExists(now))]
              /\ UNCHANGED resp
  /\ UNCHANGED <<now, admitted, calls, prior, allowList, pureVars>>

HRest == <<now, cache, admitted, calls, req, prior, allowList, pureVars>>

\* postRateLimitWarning swallows a failed post; the handler returns
H_PostRateLimitWarning(d) ==
  /\ job[d].kind = "handler" /\ job[d].pc = "postRateLimitWarning"
  /\ \E ok \in BOOLEAN :
       job' = [job EXCEPT ![d].calls = Logged(d, "postPRComment", RateLimitWarning(now), ok),
                          ![d].pc = "returned"]
  /\ resp' = [resp EXCEPT ![d] = 200]
  /\ UNCHANGED HRest

\* shouldSkipReview: the listing (an empty list when it fails) and the
\* decision; handleIssueCommentEvent goes on whatever the decision
H_ShouldSkipReview(d) ==
  /\ job[d].kind = "handler" /\ job[d].pc = "findExistingBotComments"
  /\ \E ok \in BOOLEAN :
       LET existing == IF ok THEN findExistingBotComments(HostComments) ELSE {}
           skip     == shouldSkipReview(existing, job[d].trigger = "manual", now)
           goOn     == job[d].trigger = "manual" \/ ~skip
       IN  /\ job' = [job EXCEPT ![d].calls = Logged(d, "listComments", <<>>, ok),
                                 ![d].skip = IF skip THEN "skip" ELSE "review",
                                 ![d].pc = IF goOn THEN "processReview" ELSE "returned"]
           /\ resp' = IF goOn THEN resp ELSE [resp EXCEPT ![d] = 200]
  /\ UNCHANGED HRest

\* processReview posts the placeholder summary
H_ProcessReview(d) ==
  /\ job[d].kind = "handler" /\ job[d].pc = "processReview"
  /\ \/ /\ job' = [job EXCEPT ![d].calls = Logged(d, "postPRComment", PlaceholderReview(now), TRUE),
                              ![d].pc = "returned"]
        /\ resp' = [resp EXCEPT ![d] = 200]
     \/ /\ \E msg \in ErrorMessages("postPRComment") :
             job' = [job EXCEPT ![d].calls = Logged(d, "postPRComment", PlaceholderReview(now), FALSE),
                                ![d].err = msg, ![d].pc = "postErrorComment"]
        /\ UNCHANGED resp
  /\ UNCHANGED HRest

\* postErrorComment swallows a failed post; the handler re-throws and the
\* request handler answers by the error's message
H_PostErrorComment(d) ==
  /\ job[d].kind = "handler" /\ job[d].pc = "postErrorComment"
  /\ \E ok \in BOOLEAN :
       job' = [job EXCEPT ![d].calls =
                 Logged(d, "postPRComment",
                        HandlerErrorComment(postErrorCommentMessage(job[d].err), now), ok),
               ![d].pc = "threw"]
  /\ resp' = [resp EXCEPT ![d] = errorResponseStatus(job[d].err)]
  /\ UNCHANGED HRest

\* ------------------------------------------------------------------------
\* Environment: the clock and the hourly cleanup timer
\* ------------------------------------------------------------------------
Tick ==
  /\ now < MaxNow
  /\ now' = now + 1
  /\ UNCHANGED <<cache, admitted, calls, pipeVars>>

\* The busy state of the limiter: earlier traffic has left every key one
\* request short of its limit
EmptyCache == [k \in Identifiers |-> NoEntry]
BusyCache == [k \in Identifiers |-> [count |-> MaxRequests - 1, resetTime |-> WindowMs]]

Cleanup ==
  /\ cache' = cleanup(cache, now)
  /\ cache' # cache
  /\ UNCHANGED <<now, admitted, calls, pipeVars>>

\* ------------------------------------------------------------------------
\* Specification Spec: both entry points and the jobs they start
\* ------------------------------------------------------------------------
RecentSummary == Comment(ServiceLogin, PlaceholderReview(0))

\* The situations a delivery can meet: a quiet pull request, one with a
\* recent bot summary and a busy limiter, an allow-list without the
\* repository
Scenarios ==
  { [prior |-> {}, cache |-> EmptyCache, allowList |-> NoAllowList],
    [prior |-> {RecentSummary}, cache |-> BusyCache, allowList |-> NoAllowList],
    [prior |-> {}, cache |-> EmptyCache, allowList |-> {"bob/other"}] }

Init ==
  /\ now = 0
  /\ \E s \in Scenarios : prior = s.prior /\ cache = s.cache /\ allowList = s.allowList
  /\ admitted = <<>>
  /\ calls = 0
  /\ req = [d \in Deliveries |-> NoRequest]
  /\ resp = [d \in Deliveries |-> NoResponse]
  /\ job = [d \in Deliveries |-> NoJob]
  /\ input = NoInput
  /\ output = NoOutput

Next ==
  \/ \E d \in Deliveries, r \in Requests : PostApiWebhooks(d, r)
  \/ \E d \in Deliveries, r \in Requests : handler(d, r)
  \/ \E d \in Deliveries : CR_SetPending(d)
  \/ \E d \in Deliveries : CR_GetPullRequestData(d)
  \/ \E d \in Deliveries : CR_SkipNotice(d)
  \/ \E d \in Deliveries : CR_SkipStatus(d)
  \/ \E d \in Deliveries : CR_GenerateCompletion(d)
  \/ \E d \in Deliveries : CR_CreateReview(d)
  \/ \E d \in Deliveries : CR_StatusFailure(d)
  \/ \E d \in Deliveries : CR_NoIssues(d)
  \/ \E d \in Deliveries : CR_StatusSuccess(d)
  \/ \E d \in Deliveries : CR_CatchComment(d)
  \/ \E d \in Deliveries : CR_CatchStatus(d)
  \/ \E d \in Deliveries : H_PostRateLimitWarning(d)
  \/ \E d \in Deliveries : H_ShouldSkipReview(d)
  \/ \E d \in Deliveries : H_ProcessReview(d)
  \/ \E d \in Deliveries : H_PostErrorComment(d)
  \/ Tick

Spec == Init /\ [][Next]_vars

\* ------------------------------------------------------------------------
\* Properties of Spec
\* ------------------------------------------------------------------------
Arrived(d) == req[d] # NoRequest

Calls(d) == job[d].calls

IsConductReview(d) == job[d].kind = "conductReview"

\* a conductReview run that has started and has neither returned nor rejected
InProgress(d) == IsConductReview(d) /\ job[d].pc \notin {"done", "rejected"}

IsStatusCall(c) == c.op = "setCommitStatus"

\* the statuses a job asked setCommitStatus to write, in call order
StatusWrites(d) == SelectSeq(Calls(d), IsStatusCall)

TerminalStatuses == {"success", "failure", "error"}

\* The signature header of request r is missing, lacks the sha256= prefix,
\* has the wrong length, or is not the HMAC-SHA256 of the body under the
\* secret.
SignatureInvalid(r) ==
  LET digest == HmacSha256Hex(r.body.payload, WEBHOOK_SECRET)
  IN  \/ r.signature = <<>>
      \/ ~StartsWith(r.signature, Sha256Prefix)
      \/ Len(r.signature) # Len(Sha256Prefix) + Len(digest)
      \/ r.signature # Sha256Prefix \o digest

\* C1: a request whose signature header is missing, not prefixed sha256=, of
\* the wrong length or not the HMAC of the body is answered 401 in the step
\* that receives it, and that step and every later one leave it without a
\* job: no host call, no LLM call, and the rate-limit table is not touched.
C1_InvalidSignatureRejected ==
  /\ [](\A d \in Deliveries :
          (Arrived(d) /\ SignatureInvalid(req[d])) => (resp[d] = 401 /\ job[d] = NoJob))
  /\ [][\A d \in Deliveries :
          (~Arrived(d) /\ Arrived(d)' /\ SignatureInvalid(req'[d]))
            => (resp'[d] = 401 /\ job' = job /\ cache' = cache)]_vars

\* C1 witness: both entry points have answered 401 to a request whose
\* signature differs from the right one in one digit.
C1_Witness ==
  \E d, e \in Deliveries :
    /\ Arrived(d) /\ req[d].entry = "express" /\ resp[d] = 401
    /\ Arrived(e) /\ req[e].entry = "serverless" /\ resp[e] = 401
    /\ req[d].signature = Sha256Prefix \o FlipLast(HmacSha256Hex(req[d].body.payload, WEBHOOK_SECRET))
    /\ Len(req[e].signature) = Len(ValidSignature(req[e].body.payload))
    /\ StartsWith(req[e].signature, Sha256Prefix)

\* Every delivery of the model concerns pull request 7 of alice/repo at one
\* head commit.
JobKey(d) == [repo |-> FullName, pullNumber |-> 7, headSha |-> "head"]

\* C2: at most one conductReview run is in progress for a key at any time.
C2_OneJobPerKey ==
  \A d, e \in Deliveries :
    (d # e /\ InProgress(d) /\ InProgress(e)) => JobKey(d) # JobKey(e)

\* C3: in the commit-status writes of one job, every terminal write is
\* preceded by the job's pending write and no pending write follows a
\* terminal one.
C3_PendingPrecedesTerminal ==
  \A d \in Deliveries :
    LET w == StatusWrites(d)
    IN  \A i \in DOMAIN w :
          /\ w[i].arg.status \in TerminalStatuses
               => \E k \in 1..(i - 1) : w[k].arg.status = "pending"
          /\ w[i].arg.status = "pending"
               => \A k \in 1..(i - 1) : w[k].arg.status \notin TerminalStatuses

\* C3 witness: a job has written pending and then, after a failed step, the
\* terminal status error.
C3_Witness ==
  \E d \in Deliveries :
    LET w == StatusWrites(d)
    IN  /\ Len(w) = 2
        /\ w[1].arg.status = "pending" /\ w[1].ok
        /\ w[2].arg.status = "error" /\ w[2].ok

PRChanged(body) ==
  body.name = "pull_request" /\ body.action \in {"opened", "synchronize", "reopened"}

\* C4: a correctly signed PRChanged event has its answer, 202, as soon as it
\* is received, whatever the review does afterwards.
C4_Acknowledged202 ==
  \A d \in Deliveries :
    (Arrived(d) /\ ~SignatureInvalid(req[d]) /\ PRChanged(req[d].body)) => resp[d] = 202

\* the summary the pull request started with is still recent
PriorSummaryRecent == \E c \in prior : isRecentReview(c, now)

\* C6: an automatic job on a pull request that carries a recent bot summary
\* makes no outbound call but the oracle's listing of the comments.
C6_DuplicateSkipped ==
  \A d \in Deliveries :
    (job[d].trigger = "auto" /\ job[d].recentAtStart /\ PriorSummaryRecent)
      => \A i \in DOMAIN Calls(d) : Calls(d)[i].op = "listComments"

PostedReview(d) ==
  \E i \in CallsOf(d, "postPRComment") : Calls(d)[i].arg.kind = "review"

\* C7: the dedup oracle never decides to skip a manual job, and a manual
\* job that has consulted the oracle and returned has posted its review.
C7_ManualNeverSkipped ==
  \A d \in Deliveries :
    job[d].trigger = "manual"
      => /\ job[d].skip # "skip"
         /\ (job[d].skip # "unasked" /\ job[d].pc = "returned") => PostedReview(d)

\* C7 witness: a manual job met a recent bot summary, listed it, and posted
\* its review all the same.
C7_Witness ==
  \E d \in Deliveries :
    /\ job[d].trigger = "manual" /\ job[d].kind = "handler"
    /\ job[d].recentAtStart /\ PriorSummaryRecent
    /\ \E i \in CallsOf(d, "listComments") : Calls(d)[i].ok
    /\ job[d].pc = "returned" /\ PostedReview(d)

HasFindings(d) == job[d].parsed /\ Len(job[d].comments) >= 1

\* the inline comments of a createReview call are the parser's findings
CarriesFindings(d, c) ==
  /\ Len(c.arg.comments) = Len(job[d].comments)
  /\ \A i \in DOMAIN job[d].comments :
       /\ c.arg.comments[i].path = job[d].comments[i].path
       /\ c.arg.comments[i].line = job[d].comments[i].line
       /\ c.arg.comments[i].body = job[d].comments[i].body

\* exactly one createReview call with the findings, once the call is made,
\* and status failure only after that call succeeded
OneReviewThenFailure(d) ==
  /\ Cardinality(CallsOf(d, "createReview")) = IF job[d].pc = "createReview" THEN 0 ELSE 1
  /\ \A i \in CallsOf(d, "createReview") : CarriesFindings(d, Calls(d)[i])
  /\ \A i \in CallsOf(d, "setCommitStatus") :
       Calls(d)[i].arg.status = "failure"
         => \E k \in 1..(i - 1) : Calls(d)[k].op = "createReview" /\ Calls(d)[k].ok

\* C8 (as stated): with n >= 1 findings the job makes exactly one
\* createReview call carrying the n findings, posts no issue comment, and
\* writes status failure only after createReview succeeded.
C8_ReviewAndNoIssueComment ==
  \A d \in Deliveries :
    HasFindings(d) => (OneReviewThenFailure(d) /\ CallsOf(d, "postPRComment") = {})

\* C8 (amended): with n >= 1 findings the job makes exactly one createReview
\* call carrying the n findings and writes status failure only after that
\* call succeeded; the only issue comment it can post is the "Review failed"
\* comment of the catch block, after createReview or the status write threw.
C8_ReviewThenOnlyFailureComment ==
  \A d \in Deliveries :
    HasFindings(d)
      => /\ OneReviewThenFailure(d)
         /\ \A i \in CallsOf(d, "postPRComment") :
              /\ Calls(d)[i].arg.kind = "error"
              /\ \E k \in 1..(i - 1) :
                   Calls(d)[k].op \in {"createReview", "setCommitStatus"} /\ ~Calls(d)[k].ok

\* C8 witness: a job with two findings is done: one review with the two
\* inline comments, then status failure, and no issue comment.
C8_Witness ==
  \E d \in Deliveries :
    /\ job[d].pc = "done" /\ Len(job[d].comments) = 2
    /\ \E i \in CallsOf(d, "createReview") :
         Calls(d)[i].ok /\ Len(Calls(d)[i].arg.comments) = 2
    /\ Calls(d)[Len(Calls(d))].arg = StatusArg("failure", "Code review completed with suggestions.")
    /\ CallsOf(d, "postPRComment") = {}

NoFindings(d) == job[d].parsed /\ Len(job[d].comments) = 0

NoIssuesPosts(d) == { i \in CallsOf(d, "postPRComment") : Calls(d)[i].arg = NoIssuesComment }

\* C9: with no findings the job makes no createReview call, posts the
\* no-issues comment exactly once, writes status success only after that
\* comment is posted, and a job that returns has ended with that write.
C9_NoIssuesCommentThenSuccess ==
  \A d \in Deliveries :
    NoFindings(d)
      => /\ CallsOf(d, "createReview") = {}
         /\ Cardinality(NoIssuesPosts(d)) = IF job[d].pc = "noIssues" THEN 0 ELSE 1
         /\ \A i \in CallsOf(d, "setCommitStatus") :
              Calls(d)[i].arg.status \in {"success", "failure"}
                => /\ Calls(d)[i].arg.status = "success"
                   /\ \E k \in NoIssuesPosts(d) : k < i /\ Calls(d)[k].ok
         /\ job[d].pc = "done"
              => /\ Calls(d)[Len(Calls(d))] =
                      [op |-> "setCommitStatus", arg |-> StatusArg("success", "Code review completed: No significant issues found."), ok |-> TRUE]
                 /\ Cardinality(CallsOf(d, "postPRComment")) = 1

\* C9 witness: a job without findings is done.
C9_Witness ==
  \E d \in Deliveries :
    /\ NoFindings(d) /\ job[d].pc = "done"
    /\ NoIssuesPosts(d) # {}

\* the calls of the catch block, both successful, end the job's call log
CatchCallsSucceeded(d) ==
  LET n == Len(Calls(d))
  IN  /\ n >= 3
      /\ Calls(d)[n].op = "setCommitStatus" /\ Calls(d)[n].arg.status = "error" /\ Calls(d)[n].ok
      /\ Calls(d)[n - 1].op = "postPRComment" /\ Calls(d)[n - 1].ok

\* C10: when a step of a job has failed and the calls of the catch block go
\* through, the job has posted one sanitized error comment, the commit
\* status created on the host has state error, and the job rejects with
\* the error.
C10_FailureReportedAsError ==
  \A d \in Deliveries :
    (IsConductReview(d) /\ job[d].pc = "rejected" /\ CatchCallsSucceeded(d))
      => /\ Cardinality({ i \in CallsOf(d, "postPRComment") : Calls(d)[i].arg.kind = "error" }) = 1
         /\ Calls(d)[Len(Calls(d))].arg.state = "error"
         /\ job[d].err # NoError

\* a conductReview run that has returned or rejected
Finished(d) == IsConductReview(d) /\ job[d].pc \in {"done", "rejected"}

\* C11: a finished job whose pending write went through has, after it, a
\* terminal status write (success, failure or error) that went through,
\* whichever call failed in between; no finished job leaves the commit
\* pending.
C11_TerminalStatusWritten ==
  \A d \in Deliveries :
    LET w == StatusWrites(d)
    IN  Finished(d)
          => \A i \in DOMAIN w :
               (w[i].arg.status = "pending" /\ w[i].ok)
                 => \E k \in (i + 1)..Len(w) :
                      w[k].arg.status \in TerminalStatuses /\ w[k].ok

\* the call a step of job d makes, if it makes one
MakesCall(d) == Len(job'[d].calls) = Len(job[d].calls) + 1

LastCall(d) == job'[d].calls[Len(job'[d].calls)]

\* a createReview call or the post of a result comment (the no-issues
\* comment)
IsPublishing(c) ==
  \/ c.op = "createReview"
  \/ c.op = "postPRComment" /\ c.arg.kind = "no-issues"

DeadlineExpired(d) == now >= job[d].started + DeadlineMs

\* C12: once the deadline of a job has expired, the job makes no diff-fetch
\* or provider call and publishes nothing: no createReview call and no
\* result comment.
C12_NothingPublishedAfterDeadline ==
  [][\A d \in Deliveries :
       (IsConductReview(d) /\ DeadlineExpired(d) /\ MakesCall(d))
         => /\ ~IsPublishing(LastCall(d))
            /\ LastCall(d).op \notin {"getPullRequestData", "generateCompletion"}]_vars

\* the size policy decided to skip the diff job d fetched
SizeSkipped(d) == IsConductReview(d) /\ handleLargeDiff(job[d].diff) # "proceed"

SkipNoticePosts(d) == { i \in CallsOf(d, "postPRComment") : Calls(d)[i].arg.kind = "skip" }

ReviewSkippedDescriptions ==
  { "Review skipped: Diff too large and no supported files found.",
    "Review skipped: Filtered diff still too large." }

\* C14: a job whose diff the size policy skips makes no LLM call and no
\* createReview call, posts its skip notice exactly once, writes status
\* success, with a "Review skipped" description, only after the notice is
\* posted, and when it returns it has ended with that write.
C14_SkipNoticeThenSuccess ==
  \A d \in Deliveries :
    SizeSkipped(d)
      => /\ CallsOf(d, "generateCompletion") = {}
         /\ CallsOf(d, "createReview") = {}
         /\ Cardinality(SkipNoticePosts(d)) = IF job[d].pc = "skipNotice" THEN 0 ELSE 1
         /\ \A i \in CallsOf(d, "setCommitStatus") :
              Calls(d)[i].arg.status \in {"success", "failure"}
                => /\ Calls(d)[i].arg.status = "success"
                   /\ Calls(d)[i].arg.description \in ReviewSkippedDescriptions
                   /\ \E k \in SkipNoticePosts(d) : k < i /\ Calls(d)[k].ok
         /\ job[d].pc = "done"
              => /\ Calls(d)[Len(Calls(d))].op = "setCommitStatus"
                 /\ Calls(d)[Len(Calls(d))].arg.status = "success"
                 /\ Calls(d)[Len(Calls(d))].ok
                 /\ Cardinality(CallsOf(d, "postPRComment")) = 1

\* C14 witness: a job whose filtered diff was still too large has posted
\* the notice, written success and returned.
C14_Witness ==
  \E d \in Deliveries :
    /\ SizeSkipped(d) /\ job[d].pc = "done"
    /\ handleLargeDiff(job[d].diff) = "still too large"
    /\ \E i \in SkipNoticePosts(d) : Calls(d)[i].ok
    /\ Calls(d)[Len(Calls(d))].arg.description = "Review skipped: Filtered diff still too large."

\* the stable HTML markers of bot bodies
StableMarkers ==
  {"code-critics-review", "code-critics-comment", "code-critics-error",
   "code-critics-rate-limit"}

Marked(body) == body.markers \cap StableMarkers # {}

\* a summary: the body of a review, the placeholder review, the no-issues
\* comment
IsSummary(body) == body.kind \in {"summary", "review", "no-issues"}

BodyWellFormed(body) == Marked(body) /\ (IsSummary(body) => body.ts # NoTimestamp)

\* C15: every body a job posts, as an issue comment, as the body of a
\* review or as an inline comment of a review, carries a stable marker, and
\* every summary carries a timestamp marker as well.
C15_EveryBodyMarked ==
  \A d \in Deliveries : \A i \in DOMAIN Calls(d) :
    /\ Calls(d)[i].op = "postPRComment" => BodyWellFormed(Calls(d)[i].arg)
    /\ Calls(d)[i].op = "createReview"
         => /\ BodyWellFormed(Calls(d)[i].arg.body)
            /\ \A k \in DOMAIN Calls(d)[i].arg.comments :
                 Marked(Calls(d)[i].arg.comments[k].body)

\* C16: the result a review job published on completing is found by the
\* oracle and classified recent while less than an hour has passed since
\* the job started, and no comment is classified recent unless its
\* timestamp lies in the last hour.
C16_MarkerRoundTrip ==
  /\ \A d \in Deliveries :
       (IsConductReview(d) /\ job[d].pc = "done" /\ job[d].parsed
          /\ now - job[d].started < HourMs)
         => \E c \in findExistingBotComments(HostComments) :
              /\ c.body \in PostedBy(d)
              /\ isRecentReview(c, now)
  /\ \A c \in findExistingBotComments(HostComments) :
       isRecentReview(c, now) => (0 <= now - c.body.ts /\ now - c.body.ts < HourMs)

\* a comment that asks for a review: on a pull request, with the mention
ReviewRequested(body) ==
  body.name = "issue_comment" /\ body.action = "created" /\ body.issue = "pr"
    /\ body.comment = "lower"

\* the repository of the deliveries is excluded by a configured allow-list
Disallowed == allowList # NoAllowList /\ FullName \notin allowList

\* C19: with an allow-list that lacks the repository, no delivery starts a
\* job: no comment, status, diff fetch or LLM call is made, and no step
\* changes the rate-limit table.
C19_DisallowedRepoRefused ==
  /\ [](Disallowed => \A d \in Deliveries : job[d] = NoJob)
  /\ [][Disallowed => cache' = cache]_vars

\* the key under which the limiter counts the event
EventKey(body) == IF PRChanged(body) THEN autoKey(FullName) ELSE manualKey(FullName)

\* the limiter refuses the key at time t: its window is open and full
Refuses(c, key, t) ==
  /\ c[key] # NoEntry
  /\ ~(t > c[key].resetTime)
  /\ c[key].count >= MaxRequests

\* job d was refused by the limiter
RateLimited(d) ==
  \/ job[d].pc = "postRateLimitWarning"
  \/ Len(Calls(d)) >= 1 /\ Calls(d)[1].op = "postPRComment"
       /\ Calls(d)[1].arg.kind = "rate-limit"

\* C20: a correctly signed event that asks for a review while the limiter
\* refuses its key starts a job that only posts the rate-limit notice: it
\* makes that one call, whether or not the post succeeds, and returns
\* without failure; no pending status, diff fetch, LLM call or review.
C20_RateLimitedNoticeOnly ==
  /\ [][\A d \in Deliveries :
          (~Arrived(d) /\ Arrived(d)' /\ ~SignatureInvalid(req'[d])
             /\ (PRChanged(req'[d].body) \/ ReviewRequested(req'[d].body))
             /\ Refuses(cache, EventKey(req'[d].body), now))
            => job'[d].pc = "postRateLimitWarning"]_vars
  /\ [](\A d \in Deliveries :
          (RateLimited(d) /\ job[d].pc # "postRateLimitWarning")
            => /\ Len(Calls(d)) = 1
               /\ Calls(d)[1].op = "postPRComment"
               /\ job[d].pc = "returned" /\ resp[d] = 200)

\* ------------------------------------------------------------------------
\* Specification SpecRL: the rate limiter alone, under arbitrary call
\* sequences and timing
\* ------------------------------------------------------------------------
InitRL ==
  /\ now = 0
  /\ cache = [k \in Identifiers |-> NoEntry]
  /\ admitted = <<>>
  /\ calls = 0
  /\ req = [d \in Deliveries |-> NoRequest]
  /\ resp = [d \in Deliveries |-> NoResponse]
  /\ job = [d \in Deliveries |-> NoJob]
  /\ input = NoInput
  /\ output = NoOutput
  /\ prior = {}
  /\ allowList = NoAllowList

\* a handler of repository fullName asks the limiter under its key
RL_IsAllowed(fullName, trigger) ==
  /\ calls < MaxCalls
  /\ LET id == IF trigger = "auto" THEN autoKey(fullName) ELSE manualKey(fullName)
         r  == isAllowed(cache, id, now)
     IN  /\ cache' = r.cache
         /\ admitted' = IF r.allowed
                          THEN Append(admitted, [id |-> id, t |-> now,
                                                 window |-> r.cache[id].resetTime,
                                                 repo |-> fullName, trigger |-> trigger])
                          ELSE admitted
  /\ calls' = calls + 1
  /\ UNCHANGED <<now, pipeVars>>

RL_Tick ==
  /\ now < MaxTime
  /\ now' = now + 1
  /\ UNCHANGED <<cache, admitted, calls, pipeVars>>

NextRL ==
  \/ \E fullName \in Repositories, trigger \in Triggers : RL_IsAllowed(fullName, trigger)
  \/ Cleanup
  \/ RL_Tick

SpecRL == InitRL /\ [][NextRL]_vars

\* Number of admitted calls of key id with call time in lo..hi
AdmittedIn(id, lo, hi) ==
  Cardinality({i \in DOMAIN admitted :
    admitted[i].id = id /\ admitted[i].t >= lo /\ admitted[i].t <= hi})

\* Number of admitted calls of key id in the window that ends at reset
AdmittedInWindow(id, reset) ==
  Cardinality({i \in DOMAIN admitted :
    admitted[i].id = id /\ admitted[i].window = reset})

Admits(r, trigger) ==
  /\ Len(admitted') = Len(admitted) + 1
  /\ admitted'[Len(admitted')].repo = r
  /\ admitted'[Len(admitted')].trigger = trigger

\* C17: an admission under the automatic key of a repository leaves the
\* remaining manual budget of every repository as it was, and an admission
\* under the manual key of a repository leaves the remaining automatic
\* budget of every repository as it was.
C17_IndependentBudgets ==
  [][\A r, q \in Repositories :
       /\ Admits(r, "auto")
            => getRemainingRequests(cache', manualKey(q), now)
                 = getRemainingRequests(cache, manualKey(q), now)
       /\ Admits(r, "manual")
            => getRemainingRequests(cache', autoKey(q), now)
                 = getRemainingRequests(cache, autoKey(q), now)]_vars

\* C18: the rate-limit table never holds more than MaxCacheSize entries.
C18_CacheBounded == CacheSize(cache) <= MaxCacheSize

\* the window of key k is open at the time of the step
Live(k) == cache[k] # NoEntry /\ ~(now > cache[k].resetTime)

\* the step keeps the entry of k: not removed, count not lower, same reset
Kept(k) ==
  /\ cache'[k] # NoEntry
  /\ cache'[k].count >= cache[k].count
  /\ cache'[k].resetTime = cache[k].resetTime

\* the step is an isAllowed call that returned false
RefusedCall == calls' = calls + 1 /\ admitted' = admitted

\* C39 (as stated): no step taken while a key's window is open removes its
\* entry, lowers its count or moves its reset time, and a refused isAllowed
\* call changes nothing in the table.
C39_RefusalChangesNothing ==
  [][/\ \A k \in Identifiers : Live(k) => Kept(k)
     /\ RefusedCall => cache' = cache]_vars

\* C39 (amended): no step taken while a key's window is open removes its
\* entry, lowers its count or moves its reset time; a refused isAllowed call
\* changes no entry whose window is open, and removes nothing but expired
\* entries.
C39_OpenWindowsKept ==
  [][/\ \A k \in Identifiers : Live(k) => Kept(k)
     /\ RefusedCall
          => \A k \in Identifiers :
               cache'[k] = cache[k] \/ (~Live(k) /\ cache'[k] = NoEntry)]_vars

\* C39 witness: a call has been refused, a key is at its limit in an open
\* window, and the expired entry of a key admitted earlier has been removed
C39_Witness ==
  /\ calls > Len(admitted)
  /\ \E k \in Identifiers : Live(k) /\ cache[k].count = MaxRequests
  /\ \E i \in DOMAIN admitted : cache[admitted[i].id] = NoEntry

\* ------------------------------------------------------------------------
\* Specification SpecPolicy: the size policy of _handleLargeDiff on every
\* diff of up to MaxParts parts of up to MaxPartSize characters
\* ------------------------------------------------------------------------
Idle ==
  /\ now = 0
  /\ cache = EmptyCache
  /\ admitted = <<>>
  /\ calls = 0
  /\ req = [d \in Deliveries |-> NoRequest]
  /\ resp = [d \in Deliveries |-> NoResponse]
  /\ job = [d \in Deliveries |-> NoJob]
  /\ prior = {}
  /\ allowList = NoAllowList

Parts == { Part(a, n) : a \in BOOLEAN, n \in 1..MaxPartSize }

SizedDiffs == UNION { [1..k -> Parts] : k \in 0..MaxParts }

InitPolicy ==
  /\ Idle
  /\ input \in SizedDiffs
  /\ output = NoOutput

\* _handleLargeDiff(owner, repo, pullNumber, prData, combinedDiff): whether
\* the filter ran, and the outcome
\* prompt is the diff that conductReview then fences in the user message:
\* combinedDiff, which _handleLargeDiff receives by value and leaves as it
\* was (the filtered text is its local finalDiff)
HandleLargeDiff ==
  /\ output = NoOutput
  /\ output' = [outcome  |-> handleLargeDiff(input),
                filtered |-> DiffLength(input) > MaxDiffSize,
                prompt   |-> IF handleLargeDiff(input) = "proceed" THEN input ELSE <<>>]
  /\ UNCHANGED <<now, cache, admitted, calls, req, resp, job, prior, allowList, input>>

NextPolicy == HandleLargeDiff

SpecPolicy == InitPolicy /\ [][NextPolicy]_vars

\* |D| and |F|: the characters of the diff, and of its parts whose file
\* name has an allowed extension
RECURSIVE SumSizes(_, _)
SumSizes(diff, keep) ==
  IF keep = {} THEN 0
  ELSE LET i == CHOOSE k \in keep : TRUE
       IN  diff[i].size + SumSizes(diff, keep \ {i})

SizeOfDiff(diff) == SumSizes(diff, DOMAIN diff)

SizeOfFiltered(diff) == SumSizes(diff, {i \in DOMAIN diff : diff[i].allowed})

\* C13: the size policy is a total decision: a diff of at most MaxDiffSize
\* characters proceeds unfiltered; a larger one is filtered, and is
\* Skipped(NoSupportedFiles) when nothing is left, Skipped(DiffTooLarge) when
\* what is left exceeds 1.5 * MaxDiffSize, and proceeds in every other case.
C13_SizePolicyTotal ==
  output # NoOutput
    => LET D == SizeOfDiff(input)
           F == SizeOfFiltered(input)
       IN  /\ output.outcome \in {"proceed", "no supported files", "still too large"}
           /\ D <= MaxDiffSize => (output.outcome = "proceed" /\ ~output.filtered)
           /\ D > MaxDiffSize
                => /\ output.filtered
                   /\ F = 0 => output.outcome = "no supported files"
                   /\ 2 * F > 3 * MaxDiffSize => output.outcome = "still too large"
                   /\ (F # 0 /\ 2 * F <= 3 * MaxDiffSize) => output.outcome = "proceed"

\* C38: the diff in the prompt is within 1.5 * MaxDiffSize, and is the
\* filtered diff when the diff fetched is over MaxDiffSize.
C38_PromptDiffBounded ==
  (output # NoOutput /\ output.outcome = "proceed")
    => /\ 2 * SizeOfDiff(output.prompt) <= 3 * MaxDiffSize
       /\ SizeOfDiff(input) > MaxDiffSize => output.prompt = filterDiffByExtensions(input)

\* C13 witness: a diff over the limit lost a part to the filter, what was
\* left is over MaxDiffSize but within 1.5 * MaxDiffSize, and the job
\* proceeds.
C13_Witness ==
  /\ output # NoOutput /\ output.outcome = "proceed" /\ output.filtered
  /\ SizeOfFiltered(input) < SizeOfDiff(input)
  /\ SizeOfFiltered(input) > MaxDiffSize

\* ------------------------------------------------------------------------
\* Specification SpecDispatch: what the two entry points answer, and whether
\* they start a job, on a wider set of deliveries: comments that are not a
\* review request, structurally invalid payloads, and bodies whose bytes are
\* not what JSON.stringify writes.  Only the arrival steps are taken: the
\* answer to these deliveries and the decision to start a job are made
\* before the first awaited call.
\* ------------------------------------------------------------------------
EditedMention    == [MentionComment EXCEPT !.payload = 4, !.action = "edited"]
MixedCaseMention == [MentionComment EXCEPT !.payload = 8, !.comment = "mixed"]
IssueMention     == [MentionComment EXCEPT !.payload = 9, !.issue = "issue"]

NoNumber      == [PullRequestOpened EXCEPT !.payload = 10, !.number = FALSE]
NoDiffUrl     == [PullRequestOpened EXCEPT !.payload = 11, !.diff_url = FALSE]
NoFullName    == [PullRequestOpened EXCEPT !.payload = 12, !.full_name = FALSE]
NoAction      == [PullRequestOpened EXCEPT !.payload = 13, !.action = "none"]
NoPullRequest == Event(14, "pull_request", "opened", TRUE, FALSE, "none", "none")

IssueComments == {MentionComment, PlainComment, EditedMention, MixedCaseMention, IssueMention}

InvalidPayloads == {NoNumber, NoDiffUrl, NoFullName, NoAction, NoPullRequest}

\* express.json() / the platform's body parser: bytes that parse to the body
\* whose JSON.stringify is payload but are written differently (spacing,
\* escapes, number format)
Reformatted(payload) == payload + 24

DispatchRequests ==
  { Request(e, ValidSignature(ev.payload), ev.payload, ev)
      : e \in Entries, ev \in Events \cup IssueComments \cup InvalidPayloads }
  \cup
  { Request(e, ValidSignature(Reformatted(ev.payload)), Reformatted(ev.payload), ev)
      : e \in Entries, ev \in {PullRequestOpened, Ping} }

InitDispatch ==
  /\ Idle
  /\ input = NoInput
  /\ output = NoOutput

NextDispatch ==
  \/ \E d \in Deliveries, r \in DispatchRequests : PostApiWebhooks(d, r)
  \/ \E d \in Deliveries, r \in DispatchRequests : handler(d, r)

SpecDispatch == InitDispatch /\ [][NextDispatch]_vars

\* the delivery passed the signature check
Authenticated(d) == req[d] # NoRequest /\ resp[d] # 401

\* the delivery started a manual review
ManualReviewLaunched(d) == job[d].kind # "none" /\ job[d].trigger = "manual"

\* C21: an authenticated issue_comment delivery launches a manual review
\* exactly when its action is created, the issue is a pull request and the
\* body contains @codecritics; every other issue_comment delivery is
\* answered 202 and starts nothing.
C21_MentionLaunchesManualReview ==
  \A d \in Deliveries :
    (Authenticated(d) /\ req[d].body.name = "issue_comment")
      => /\ ManualReviewLaunched(d) <=> ReviewRequested(req[d].body)
         /\ ~ReviewRequested(req[d].body) => (resp[d] = 202 /\ job[d] = NoJob)

\* the delivery carries the signature of the bytes it was sent as
CorrectlySigned(d) ==
  req[d] # NoRequest /\ req[d].signature = ValidSignature(req[d].raw)

\* C22: a correctly signed delivery of a reviewable event type whose payload
\* fails the structural validation is answered 400 and starts no job.
C22_InvalidPayloadAnswered400 ==
  \A d \in Deliveries :
    (CorrectlySigned(d) /\ req[d].body.name \in {"pull_request", "issue_comment"}
       /\ ~validateWebhookPayload(req[d].body))
      => (resp[d] = 400 /\ job[d] = NoJob)

\* C23: a delivery whose signature header is sha256= followed by the HMAC of
\* the raw body under the secret is never answered 401.
C23_RawBodySignatureAccepted ==
  \A d \in Deliveries : CorrectlySigned(d) => resp[d] # 401

\* ------------------------------------------------------------------------
\* Specification SpecDiffUrl: services/github.ts getPullRequestData(owner,
\* repo, pullNumber, diffUrl) on every diffUrl of the model
\* ------------------------------------------------------------------------
EndsWith(s, p) == Len(s) >= Len(p) /\ SubSeq(s, Len(s) - Len(p) + 1, Len(s)) = p

\* A diffUrl: whether the argument is given, whether new URL(url) accepts it,
\* and the protocol, the hostname (a sequence of pieces) and the expected
\* segments that the pathname contains
DiffUrl(given, parses, protocol, hostname, pathname) ==
  [given |-> given, parses |-> parses, protocol |-> protocol, hostname |-> hostname,
   pathname |-> pathname]

NoDiffUrlArgument == DiffUrl(FALSE, FALSE, "", <<>>, {})
UnparsableDiffUrl == DiffUrl(TRUE, FALSE, "", <<>>, {})

Protocols == {"https:", "http:", "ftp:"}

Hostnames ==
  { <<"github.com">>, <<"api.", "github.com">>, <<"patch-diff.", "githubusercontent.com">>,
    <<"evil", "github.com">>, <<"github.com", ".evil.example">>, <<"evil.example">> }

\* [owner, repo, 'pull', pullNumber.toString()]
expectedPathSegments == {"owner", "repo", "pull", "1"}

DiffUrls ==
  {NoDiffUrlArgument, UnparsableDiffUrl}
  \cup { DiffUrl(TRUE, TRUE, pr, h, segs)
           : pr \in Protocols, h \in Hostnames, segs \in SUBSET expectedPathSegments }

NoUrl == DiffUrl(FALSE, FALSE, "null", <<>>, {})

\* validateAndSanitizeDiffUrl: the url, or null
validateAndSanitizeDiffUrl(url) ==
  IF ~url.parses THEN NoUrl
  ELSE IF ~EndsWith(url.hostname, <<"github.com">>)
            /\ ~EndsWith(url.hostname, <<"githubusercontent.com">>) THEN NoUrl
  ELSE IF ~(\A segment \in expectedPathSegments : segment \in url.pathname) THEN NoUrl
  ELSE IF url.protocol # "http:" /\ url.protocol # "https:" THEN NoUrl
  ELSE url

InvalidDiffUrlProvided == {"invalid diff url"}

Thrown(message, requests) ==
  [outcome |-> "thrown", message |-> message, requests |-> requests]

Returned(requests) == [outcome |-> "returned", message |-> NoError, requests |-> requests]

\* getPullRequestData: the requests it sent and how it ended.  failing is
\* the request that fails, if any; "fetch" is the request to diffUrl that
\* carries the Authorization header.
getPullRequestData(diffUrl, failing) ==
  IF failing = "pulls.get" THEN Thrown({"network"}, <<"pulls.get">>)
  ELSE IF failing = "pulls.listFiles" THEN Thrown({"network"}, <<"pulls.get", "pulls.listFiles">>)
  ELSE IF diffUrl.given
    THEN IF validateAndSanitizeDiffUrl(diffUrl) = NoUrl
           THEN Thrown(InvalidDiffUrlProvided, <<"pulls.get", "pulls.listFiles">>)
         ELSE IF failing = "diff"
           THEN Thrown({"fetch"}, <<"pulls.get", "pulls.listFiles", "fetch">>)
         ELSE Returned(<<"pulls.get", "pulls.listFiles", "fetch">>)
  ELSE IF failing = "diff"
    THEN Thrown({"network"}, <<"pulls.get", "pulls.listFiles", "compareCommits">>)
  ELSE Returned(<<"pulls.get", "pulls.listFiles", "compareCommits">>)

InitDiffUrl ==
  /\ Idle
  /\ input \in DiffUrls
  /\ output = NoOutput

GetPullRequestData ==
  /\ output = NoOutput
  /\ \E failing \in {"none", "pulls.get", "pulls.listFiles", "diff"} :
       output' = getPullRequestData(input, failing)
  /\ UNCHANGED <<now, cache, admitted, calls, req, resp, job, prior, allowList, input>>

NextDiffUrl == GetPullRequestData

SpecDiffUrl == InitDiffUrl /\ [][NextDiffUrl]_vars

Sent(op) == \E i \in DOMAIN output.requests : output.requests[i] = op

\* the call got as far as obtaining the diff with a diffUrl that fails one
\* of the checks
RejectedDiffUrl ==
  /\ output # NoOutput
  /\ input.given /\ validateAndSanitizeDiffUrl(input) = NoUrl
  /\ Sent("pulls.listFiles")
  /\ ~(output.outcome = "thrown" /\ Len(output.requests) = 2 /\ output.message = {"network"})

\* C24: when the diffUrl fails a check, no request carrying the token goes
\* to it, the diff is asked of compareCommits, and the call does not fail on
\* account of the URL.
C24_InvalidDiffUrlFallsBack ==
  RejectedDiffUrl
    => /\ ~Sent("fetch")
       /\ Sent("compareCommits")
       /\ output.message # InvalidDiffUrlProvided

\* ------------------------------------------------------------------------
\* Specification SpecProvider: start-up under every environment (utils/config
\* validateConfig at module load, then Container.getAIClient), followed by
\* the completion call of one review
\* ------------------------------------------------------------------------
\* process.env: AI_PROVIDER and whether each variable is set
Environment(aiProvider, githubToken, webhookSecret, geminiKey, deepseekKey) ==
  [AI_PROVIDER |-> aiProvider, GITHUB_TOKEN |-> githubToken, WEBHOOK_SECRET |-> webhookSecret,
   GEMINI_API_KEY |-> geminiKey, DEEPSEEK_API_KEY |-> deepseekKey]

Environments ==
  { Environment(p, t, w, g, k)
      : p \in {"unset", "gemini", "deepseek", "openai"}, t \in BOOLEAN, w \in BOOLEAN,
        g \in BOOLEAN, k \in BOOLEAN }

\* process.env.AI_PROVIDER || 'gemini'
aiProviderOf(env) == IF env.AI_PROVIDER = "unset" THEN "gemini" ELSE env.AI_PROVIDER

\* validateConfig(): TRUE when it returns, FALSE when it throws
validateConfig(env) ==
  IF ~env.GITHUB_TOKEN \/ ~env.WEBHOOK_SECRET THEN FALSE
  ELSE IF aiProviderOf(env) = "gemini" /\ ~env.GEMINI_API_KEY THEN FALSE
  ELSE IF aiProviderOf(env) = "deepseek" /\ ~env.DEEPSEEK_API_KEY THEN FALSE
  ELSE TRUE

NoClient == "none"

\* Container.getAIClient(): the client held, or NoClient when it throws
getAIClient(env) ==
  LET aiProvider == aiProviderOf(env)
      primary == IF aiProvider = "gemini" /\ env.GEMINI_API_KEY THEN "gemini"
                 ELSE IF aiProvider = "deepseek" /\ env.DEEPSEEK_API_KEY THEN "deepseek"
                 ELSE NoClient
  IN  IF primary # NoClient THEN primary
      ELSE IF aiProvider = "gemini" /\ env.DEEPSEEK_API_KEY THEN "deepseek"
      ELSE IF aiProvider = "deepseek" /\ env.GEMINI_API_KEY THEN "gemini"
      ELSE NoClient

\* the process after start-up: whether it runs, the one client it holds, and
\* the completion attempts of the review it then runs
Process(outcome, client) ==
  [outcome |-> outcome, client |-> client, attempts |-> <<>>, review |-> "none"]

InitProvider ==
  /\ Idle
  /\ input \in Environments
  /\ output = NoOutput

\* module load and container construction
Startup ==
  /\ output = NoOutput
  /\ output' = IF ~validateConfig(input) THEN Process("config error", NoClient)
               ELSE IF getAIClient(input) = NoClient THEN Process("no provider", NoClient)
               ELSE Process("started", getAIClient(input))
  /\ UNCHANGED <<now, cache, admitted, calls, req, resp, job, prior, allowList, input>>

\* how a completion request can end
CompletionErrors == {"none", "network", "timeout", "5xx", "401"}

Retriable(error) == error \in {"network", "timeout", "5xx"}

\* conductReview: await this.aiClient.generateCompletion(messages).  The
\* client sends one request; an error is re-thrown and the review fails.
GenerateCompletion ==
  /\ output # NoOutput /\ output.outcome = "started" /\ output.review = "none"
  /\ \E error \in CompletionErrors :
       output' = [output EXCEPT
                    !.attempts = Append(@, [provider |-> output.client, error |-> error]),
                    !.review = IF error = "none" THEN "completed" ELSE "failed"]
  /\ UNCHANGED <<now, cache, admitted, calls, req, resp, job, prior, allowList, input>>

NextProvider == Startup \/ GenerateCompletion

SpecProvider == InitProvider /\ [][NextProvider]_vars

OtherProvider(p) == IF p = "gemini" THEN "deepseek" ELSE "gemini"

KeyPresent(env, p) == IF p = "gemini" THEN env.GEMINI_API_KEY ELSE env.DEEPSEEK_API_KEY

\* start-up has run in an environment that has the host token and the
\* webhook secret and names a known provider
StartedUp ==
  /\ output # NoOutput
  /\ input.GITHUB_TOKEN /\ input.WEBHOOK_SECRET
  /\ aiProviderOf(input) \in {"gemini", "deepseek"}

\* C25: when the key of the configured provider is missing and the other
\* provider's key is present, the service starts with the other provider;
\* it is without a provider only when neither key is present.
C25_StartupFallback ==
  StartedUp
    => LET primary == aiProviderOf(input)
       IN  /\ (~KeyPresent(input, primary) /\ KeyPresent(input, OtherProvider(primary)))
                => (output.outcome = "started" /\ output.client = OtherProvider(primary))
           /\ output.outcome # "started"
                => (~input.GEMINI_API_KEY /\ ~input.DEEPSEEK_API_KEY)

AttemptsOn(p) == { i \in DOMAIN output.attempts : output.attempts[i].provider = p }

\* C26: when the completion on the primary provider fails and the other
\* provider's key is present, the completion is tried on the other
\* provider; the review fails only after a failed call on each.
C26_CallFallback ==
  (StartedUp /\ output.review = "failed" /\ KeyPresent(input, OtherProvider(output.client)))
    => /\ AttemptsOn(output.client) # {}
       /\ AttemptsOn(OtherProvider(output.client)) # {}

\* services/github.ts retryWithBackoff: the default number of attempts, the
\* only retry policy of the repository
maxRetries == 3

\* C27: a review fails on a retriable completion error only after
\* maxRetries attempts, and never makes more.
C27_CompletionRetried ==
  output # NoOutput
    => /\ Len(output.attempts) <= maxRetries
       /\ (output.review = "failed" /\ Retriable(output.attempts[Len(output.attempts)].error))
            => Len(output.attempts) = maxRetries

\* ------------------------------------------------------------------------
\* Specification SpecRetry: services/github.ts retryWithBackoff(operation)
\* with the default maxRetries, on every sequence of results the operation
\* can give; one step per iteration of the loop
\* ------------------------------------------------------------------------
\* What one invocation of the operation does: it resolves, or rejects with
\* an error of this status ("403 rate limit": status 403 with
\* x-ratelimit-remaining: 0; "network": no status)
OperationResults == {"ok", "404", "422", "429", "403 rate limit", "500", "network"}

isRateLimitError(error) == error = "403 rate limit"

Loop(attempt, waits, outcome, error) ==
  [attempt |-> attempt, waits |-> waits, outcome |-> outcome, error |-> error]

InitRetry ==
  /\ Idle
  /\ input \in [1..maxRetries -> OperationResults]
  /\ output = Loop(1, <<>>, "running", "none")

RetryAttemptGenericError ==
  /\ output.outcome = "running"
  /\ LET attempt == output.attempt
         result  == input[attempt]
     IN  output' =
           IF result = "ok" THEN [output EXCEPT !.outcome = "returned"]
           ELSE IF attempt = maxRetries
             THEN [output EXCEPT !.outcome = "thrown", !.error = "Max retries exceeded"]
           ELSE IF isRateLimitError(result)
             THEN [output EXCEPT !.attempt = attempt + 1,
                                 !.waits = Append(@, "until reset")]
           ELSE [output EXCEPT !.attempt = attempt + 1, !.waits = Append(@, "backoff")]
  /\ UNCHANGED <<now, cache, admitted, calls, req, resp, job, prior, allowList, input>>

\* one iteration: await operation(); on an error, throw it at the last
\* attempt, else wait (until the reset for a rate-limit error, baseDelay *
\* 2^(attempt-1) for any other) and go round again
RetryAttempt ==
  /\ output.outcome = "running"
  /\ LET attempt == output.attempt
         result  == input[attempt]
     IN  output' =
           IF result = "ok" THEN [output EXCEPT !.outcome = "returned"]
           ELSE IF attempt = maxRetries
             THEN [output EXCEPT !.outcome = "thrown", !.error = result]
           ELSE IF isRateLimitError(result)
             THEN [output EXCEPT !.attempt = attempt + 1,
                                 !.waits = Append(@, "until reset")]
           ELSE [output EXCEPT !.attempt = attempt + 1, !.waits = Append(@, "backoff")]
  /\ UNCHANGED <<now, cache, admitted, calls, req, resp, job, prior, allowList, input>>

NextRetry == RetryAttempt

SpecRetry == InitRetry /\ [][NextRetry]_vars

\* a 4xx status other than 429 that is not a rate-limit response
Permanent(result) == result \in {"404", "422"}

\* invocation i of the operation has completed
Invoked(i) == output.attempt > i \/ (output.attempt = i /\ output.outcome # "running")

\* C28: an invocation that fails with a permanent error is the last one:
\* its error is thrown at once, with no wait and no further invocation.
C28_PermanentNotRetried ==
  \A i \in 1..maxRetries :
    (Invoked(i) /\ Permanent(input[i]))
      => /\ output.attempt = i
         /\ output.outcome = "thrown" /\ output.error = input[i]
         /\ Len(output.waits) = i - 1

\* the number of invocations of the operation made so far
Invocations == IF output.outcome = "running" THEN output.attempt - 1 ELSE output.attempt

\* C35: the operation is invoked at most maxRetries times; the call returns
\* at the first invocation that succeeds and rejects, after maxRetries
\* failures, with the error of the last one; every wait, for a rate-limit
\* reset or for a backoff, has used an attempt.
C35_RetryCapped ==
  /\ Invocations <= maxRetries
  /\ Len(output.waits) = output.attempt - 1
  /\ \A i \in 1..Invocations : i < Invocations => input[i] # "ok"
  /\ output.outcome = "returned" => input[Invocations] = "ok"
  /\ output.outcome = "thrown"
       => /\ Invocations = maxRetries
          /\ \A i \in 1..maxRetries : input[i] # "ok"
          /\ output.error = input[maxRetries]
  /\ output.outcome = "running" => output.attempt <= maxRetries

\* C35 witness: the call rejected after a wait for a rate-limit reset
C35_Witness ==
  /\ output.outcome = "thrown" /\ output.error = "500"
  /\ \E i \in DOMAIN output.waits : output.waits[i] = "until reset"

\* ------------------------------------------------------------------------
\* Comments of the bot as events (specification Spec)
\* ------------------------------------------------------------------------
\* The issue_comment delivery the host sends for a comment the bot has posted
\* on the pull request
CommentEvent(body) ==
  Event(15, "issue_comment", "created", TRUE, FALSE, "pr",
        IF body.mention THEN "lower" ELSE "plain")

\* C36: no comment posted by the bot contains @codecritics, and the delivery
\* of a comment of the bot is a review request at neither entry point.
C36_BotCommentsDoNotTrigger ==
  \A d \in Deliveries : \A b \in PostedBy(d) :
    /\ ~b.mention
    /\ ~(registeredHandler(CommentEvent(b)) = "handleIssueCommentEvent"
           /\ shouldProcessEvent(CommentEvent(b)))
    /\ ~expressMentions(CommentEvent(b))

\* ------------------------------------------------------------------------
\* Outcome messages of a run (specification Spec)
\* ------------------------------------------------------------------------
\* run d has published a result: a review, the no-issues comment or a skip
\* notice
PublishedResult(d) ==
  \/ \E i \in CallsOf(d, "createReview") : Calls(d)[i].ok
  \/ \E b \in PostedBy(d) : b.kind \in {"no-issues", "skip"}

\* run d has published the "Review failed" comment
PublishedFailure(d) == \E b \in PostedBy(d) : b.kind = "error"

\* C40: no run of conductReview publishes both a result and the "Review
\* failed" comment.
C40_OneOutcomeMessage ==
  \A d \in Deliveries :
    job[d].kind = "conductReview" => ~(PublishedResult(d) /\ PublishedFailure(d))

\* ------------------------------------------------------------------------
\* Concurrency of review jobs (specification Spec)
\* ------------------------------------------------------------------------
\* job d has been started and has not ended
Running(d) == job[d].kind # "none" /\ job[d].pc \notin {"done", "rejected", "returned"}

\* The cap at the scale of the model: one job fewer than there are
\* deliveries, so that the last delivery can arrive with the cap reached
JobCap == Cardinality(Deliveries) - 1

\* C29: no more than JobCap review jobs run at the same time.
C29_ConcurrentJobsCapped == Cardinality({d \in Deliveries : Running(d)}) <= JobCap

\* ------------------------------------------------------------------------
\* Specification SpecParser: parseAIResponse on every reply of up to
\* MaxBlocks blocks
\* ------------------------------------------------------------------------
Blocks ==
  { BlockOf(path, line, description, terminated)
      : path \in {"", "a.ts"},
        line \in {NoLinePart, NaNLine, Number(-5), Number(0), Number(3)},
        description \in {"", "bug"},
        terminated \in BOOLEAN }

ParserReplies ==
  {NoIssuesReply} \cup { Findings(bs) : bs \in UNION { [1..k -> Blocks] : k \in 0..MaxBlocks } }

InitParser ==
  /\ Idle
  /\ input \in ParserReplies
  /\ output = NoOutput

ParseAIResponse ==
  /\ output = NoOutput
  /\ output' = [outcome |-> "returned", comments |-> parseAIResponse(input)]
  /\ UNCHANGED <<now, cache, admitted, calls, req, resp, job, prior, allowList, input>>

NextParser == ParseAIResponse

SpecParser == InitParser /\ [][NextParser]_vars

\* a block with a path and a description
ValidBlock(b) == b.path # "" /\ b.description # ""

\* the line a finding of block b is to carry
ExpectedLine(b) == IF b.line.kind = "number" /\ b.line.value >= 1 THEN b.line.value ELSE 1

\* C30: a reply without the sentinel that has a valid block yields a
\* finding; every finding has a path and a line of at least 1, the line of
\* one of the reply's blocks or 1 when that block has no positive line.
C30_FindingsWellFormed ==
  output # NoOutput
    => /\ (~input.sentinel /\ \E i \in DOMAIN input.blocks : ValidBlock(input.blocks[i]))
            => Len(output.comments) >= 1
       /\ \A k \in DOMAIN output.comments :
            /\ output.comments[k].path # ""
            /\ output.comments[k].line >= 1
            /\ \E i \in DOMAIN input.blocks :
                 /\ output.comments[k].path = input.blocks[i].path
                 /\ output.comments[k].line = ExpectedLine(input.blocks[i])

\* ------------------------------------------------------------------------
\* Specification SpecErrorComment: the failure comments of two failed runs,
\* by conductReview's catch block or by postErrorComment, for every pair of
\* error messages over ErrorWords
\* ------------------------------------------------------------------------
\* An error message is the set of the words it contains: the keywords the
\* code looks for and other text
ErrorWords == {"auth", "network", "timeout", "rate limit", "token", "not found", "ENOENT /srv/app"}

Posters == {"conductReview", "postErrorComment"}

Failures(first, second, poster, nodeEnv) ==
  [first |-> first, second |-> second, poster |-> poster, NODE_ENV |-> nodeEnv]

\* The text of a failure comment between its fixed header and footer: the
\* phrase chosen, and the words of the error message it quotes
FailureText(phrase, quoted) == [phrase |-> phrase, quoted |-> quoted]

\* postErrorComment: errorMessage; `Error: ${error.message}` in development
\* when no keyword matched
postErrorCommentText(msg, nodeEnv) ==
  IF "rate limit" \notin msg /\ "token" \notin msg /\ "not found" \notin msg
       /\ nodeEnv = "development"
    THEN FailureText("Error: ", msg)
  ELSE FailureText(postErrorCommentMessage(msg), {})

failureComment(poster, msg, nodeEnv) ==
  IF poster = "conductReview" THEN FailureText(sanitizeErrorForPublic(msg), {})
  ELSE postErrorCommentText(msg, nodeEnv)

InitErrorComment ==
  /\ Idle
  /\ input \in { Failures(a, b, p, e) : a \in SUBSET ErrorWords, b \in SUBSET ErrorWords,
                                        p \in Posters, e \in {"production", "development"} }
  /\ output = <<>>

\* a run fails with the next error message and its failure comment is posted
PostFailureComment ==
  /\ Len(output) < 2
  /\ output' = Append(output,
                      failureComment(input.poster,
                                     IF Len(output) = 0 THEN input.first ELSE input.second,
                                     input.NODE_ENV))
  /\ UNCHANGED <<now, cache, admitted, calls, req, resp, job, prior, allowList, input>>

NextErrorComment == PostFailureComment

SpecErrorComment == InitErrorComment /\ [][NextErrorComment]_vars

\* the five user-visible phrases
PublicPhrases ==
  { "Authentication configuration issue detected.",
    "Network connectivity issue encountered.",
    "Request timeout - the review took too long to complete.",
    "Rate limit exceeded - please try again later.",
    "An unexpected error occurred during the review process." }

\* the category of an error message
ErrorCategory(msg) ==
  IF "api key" \in msg \/ "auth" \in msg THEN "authentication"
  ELSE IF "network" \in msg \/ "fetch" \in msg THEN "network"
  ELSE IF "timeout" \in msg THEN "timeout"
  ELSE IF "rate limit" \in msg THEN "rate limit"
  ELSE "unexpected"

\* C31: every failure comment carries one of the five phrases and quotes
\* nothing of the error message, and two failures of the same category get
\* the same comment.
C31_FailureCommentStable ==
  /\ \A i \in DOMAIN output : output[i].phrase \in PublicPhrases /\ output[i].quoted = {}
  /\ (Len(output) = 2 /\ ErrorCategory(input.first) = ErrorCategory(input.second))
       => output[1] = output[2]

\* ------------------------------------------------------------------------
\* Specification SpecChunks: utils/diff-processor processLargeDiffInChunks on
\* every diff of up to MaxChars characters and every chunk size up to
\* MaxChunkSize.  A diff is a sequence of characters; "H" stands for the
\* text `diff --git `, "x" for any other character.
\* ------------------------------------------------------------------------
DiffChars == {"H", "x"}

DiffTexts == UNION { [1..n -> DiffChars] : n \in 0..MaxChars }

\* the first index after the start of text at which `diff --git ` begins,
\* or 0
NextHeader(text) ==
  IF \E i \in 2..Len(text) : text[i] = "H"
    THEN CHOOSE i \in 2..Len(text) : text[i] = "H" /\ \A k \in 2..(i - 1) : text[k] # "H"
  ELSE 0

\* diff.split(/diff --git /): the separator is consumed
RECURSIVE splitConsumingHeaders(_)
splitConsumingHeaders(text) ==
  IF NextHeader(text) = 0 THEN <<text>>
  ELSE <<SubSeq(text, 1, NextHeader(text) - 1)>>
         \o splitConsumingHeaders(SubSeq(text, NextHeader(text) + 1, Len(text)))

\* diff.split(/(?=diff --git )/): cut before every `diff --git ` but the one
\* at index 0; the empty string gives one empty part
RECURSIVE splitByDiffHeaders(_)
splitByDiffHeaders(text) ==
  IF NextHeader(text) = 0 THEN <<text>>
  ELSE <<SubSeq(text, 1, NextHeader(text) - 1)>>
         \o splitByDiffHeaders(SubSeq(text, NextHeader(text), Len(text)))

startsNewChunkOnCurrentOnly(currentChunk, part, chunkSize) ==
  Len(currentChunk) > chunkSize /\ Len(currentChunk) > 0

\* currentChunk.length + part.length > chunkSize && currentChunk.length > 0
startsNewChunk(currentChunk, part, chunkSize) ==
  Len(currentChunk) + Len(part) > chunkSize /\ Len(currentChunk) > 0

\* the loop over diffParts and the push of the last chunk
RECURSIVE buildChunks(_, _, _, _)
buildChunks(diffParts, currentChunk, chunks, chunkSize) ==
  IF diffParts = <<>>
    THEN IF Len(currentChunk) > 0 THEN Append(chunks, currentChunk) ELSE chunks
  ELSE IF startsNewChunk(currentChunk, Head(diffParts), chunkSize)
    THEN buildChunks(Tail(diffParts), Head(diffParts), Append(chunks, currentChunk), chunkSize)
  ELSE buildChunks(Tail(diffParts), currentChunk \o Head(diffParts), chunks, chunkSize)

Chunking(phase, chunks, processed) ==
  [phase |-> phase, chunks |-> chunks, processed |-> processed]

InitChunks ==
  /\ Idle
  /\ input \in { [diff |-> d, chunkSize |-> c] : d \in DiffTexts, c \in 0..MaxChunkSize }
  /\ output = Chunking("split", <<>>, <<>>)

\* lines 29-59: the chunks are built
BuildChunks ==
  /\ output.phase = "split"
  /\ output' = Chunking("process",
                        buildChunks(splitByDiffHeaders(input.diff), <<>>, <<>>, input.chunkSize),
                        <<>>)
  /\ UNCHANGED <<now, cache, admitted, calls, req, resp, job, prior, allowList, input>>

\* lines 66-73: await processor(chunks[i]); a rejection ends the call
ProcessChunk ==
  /\ output.phase = "process"
  /\ IF Len(output.processed) = Len(output.chunks)
       THEN output' = [output EXCEPT !.phase = "returned"]
     ELSE \E resolves \in BOOLEAN :
            output' = [output EXCEPT
                         !.processed = Append(@, output.chunks[Len(output.processed) + 1]),
                         !.phase = IF resolves THEN "process" ELSE "thrown"]
  /\ UNCHANGED <<now, cache, admitted, calls, req, resp, job, prior, allowList, input>>

NextChunks == BuildChunks \/ ProcessChunk

SpecChunks == InitChunks /\ [][NextChunks]_vars

RECURSIVE Concat(_)
Concat(seqs) == IF seqs = <<>> THEN <<>> ELSE Head(seqs) \o Concat(Tail(seqs))

ChunksBuilt == output.phase # "split"

\* the index of the diff at which chunk k starts
ChunkStart(k) == Len(Concat(SubSeq(output.chunks, 1, k - 1))) + 1

\* C32: the chunks concatenated in order are the diff, and every chunk
\* starts at index 0 of the diff or at a `diff --git `.
C32_ChunksPartitionDiff ==
  ChunksBuilt
    => /\ Concat(output.chunks) = input.diff
       /\ \A k \in DOMAIN output.chunks :
            /\ output.chunks[k] # <<>>
            /\ k > 1 => (output.chunks[k][1] = "H" /\ input.diff[ChunkStart(k)] = "H")

\* C32 witness: a diff was cut into several chunks
C32_Witness ==
  /\ ChunksBuilt /\ Len(output.chunks) >= 2
  /\ \E i \in DOMAIN input.diff : i > 1 /\ input.diff[i] = "H" /\ input.diff[1] = "x"

\* the number of file parts in a chunk
PartsIn(chunk) == Len(splitByDiffHeaders(chunk))

Line(label, text, bold) == [label |-> label, text |-> text, bold |-> bold]

Lines ==
  { Line("Description", "Missing check", TRUE), Line("Description", "", TRUE),
    Line("Suggested Change", "Replace with:", TRUE), Line("Suggested Change", "", TRUE),
    Line("Severity", "Medium", TRUE), Line("Issue Type", "Bug", TRUE),
    Line("none", "doSomething(value);", FALSE), Line("none", "**Note** see above", TRUE) }

FieldLines == UNION { [1..n -> Lines] : n \in 0..MaxLines }

\* A field is the sequence of the lines joined by '\n' in it; the empty
\* sequence is the empty (or unset) string
FieldOf(text) == IF text = "" THEN <<>> ELSE <<text>>

CurrentComment(read, description, severity, suggestedChange) ==
  [read |-> read, description |-> description, severity |-> severity,
   suggestedChange |-> suggestedChange]

InitLines ==
  /\ Idle
  /\ input \in FieldLines
  /\ output = CurrentComment(0, <<>>, <<>>, <<>>)

\* the else-if chain of lines 92-115 on the next line of the block
ParseLine ==
  /\ output.read < Len(input)
  /\ LET line == input[output.read + 1]
         next == [output EXCEPT !.read = @ + 1]
     IN  output' =
           IF line.label = "Issue Type" THEN next
           ELSE IF line.label = "Description"
             THEN [next EXCEPT !.description = FieldOf(line.text)]
           ELSE IF line.label = "Severity"
             THEN [next EXCEPT !.severity = FieldOf(line.text)]
           ELSE IF line.label = "Suggested Change"
             THEN [next EXCEPT !.suggestedChange = FieldOf(line.text)]
           ELSE IF output.suggestedChange # <<>>
             THEN [next EXCEPT !.suggestedChange = Append(@, line.text)]
           ELSE IF output.description # <<>> /\ output.severity = <<>> /\ ~line.bold
             THEN [next EXCEPT !.description = Append(@, line.text)]
           ELSE next
  /\ UNCHANGED <<now, cache, admitted, calls, req, resp, job, prior, allowList, input>>

NextLines == ParseLine

SpecLines == InitLines /\ [][NextLines]_vars

\* The field as the rule of continuation gives it after the lines read: the
\* text of the last line labeled with it and the unlabeled lines that follow
\* that line up to the next labeled line
RECURSIVE Continued(_, _, _, _)
Continued(lines, label, field, open) ==
  IF lines = <<>> THEN field
  ELSE IF Head(lines).label = label
    THEN Continued(Tail(lines), label, FieldOf(Head(lines).text), TRUE)
  ELSE IF Head(lines).label # "none" THEN Continued(Tail(lines), label, field, FALSE)
  ELSE IF open THEN Continued(Tail(lines), label, Append(field, Head(lines).text), TRUE)
  ELSE Continued(Tail(lines), label, field, FALSE)

\* C34: after any number of lines, the suggestion and the description are
\* what the rule of continuation gives.
C34_ContinuationLines ==
  LET read == SubSeq(input, 1, output.read)
  IN  /\ output.suggestedChange = Continued(read, "Suggested Change", <<>>, FALSE)
      /\ output.description = Continued(read, "Description", <<>>, FALSE)

\* ------------------------------------------------------------------------
\* Specification SpecStatus: the commit-status writes of one run of
\* conductReview while commits are pushed to the pull request.  input is
\* the head of the pull request on the host (the number of pushes so far),
\* output the run: where it is, the head read by the write in progress, and
\* the statuses created.
\* ------------------------------------------------------------------------
StatusRun(pc, sha, writes) == [pc |-> pc, sha |-> sha, writes |-> writes]

NoSha == -1

InitStatus ==
  /\ Idle
  /\ input = 0
  /\ output = StatusRun("pending", NoSha, <<>>)

\* a synchronize: the head of the pull request moves
NewPush ==
  /\ input < MaxPushes
  /\ input' = input + 1
  /\ UNCHANGED <<now, cache, admitted, calls, req, resp, job, prior, allowList, output>>

\* setCommitStatus, first await: pulls.get, from which pr.head.sha is taken
SCS_PullsGet ==
  /\ output.pc \in {"pending", "terminal"}
  /\ output.sha = NoSha
  /\ output' = [output EXCEPT !.sha = input]
  /\ UNCHANGED <<now, cache, admitted, calls, req, resp, job, prior, allowList, input>>

\* setCommitStatus, second await: createCommitStatus({sha: pr.head.sha, state})
\* with the status of this point of conductReview
SCS_CreateCommitStatus ==
  /\ output.pc \in {"pending", "terminal"}
  /\ output.sha # NoSha
  /\ \E status \in IF output.pc = "pending" THEN {"pending"}
                   ELSE {"success", "failure", "error"} :
       output' = StatusRun(IF output.pc = "pending" THEN "review" ELSE "done", NoSha,
                           Append(output.writes,
                                  [state |-> commitState(status), sha |-> output.sha]))
  /\ UNCHANGED <<now, cache, admitted, calls, req, resp, job, prior, allowList, input>>

\* the awaited calls between the two writes: diff, completion, publication
ReviewWork ==
  /\ output.pc = "review"
  /\ output' = [output EXCEPT !.pc = "terminal"]
  /\ UNCHANGED <<now, cache, admitted, calls, req, resp, job, prior, allowList, input>>

NextStatus == NewPush \/ SCS_PullsGet \/ SCS_CreateCommitStatus \/ ReviewWork

SpecStatus == InitStatus /\ [][NextStatus]_vars

\* C37: the status writes of the run are all on one commit.
C37_StatusWritesOneCommit ==
  \A i \in DOMAIN output.writes : \A k \in DOMAIN output.writes :
    output.writes[i].sha = output.writes[k].sha
====
